---- MODULE Spec2Model ----
(***************************************************************************)
(* A model of the two table-driven passes of the repository:               *)
(*   - Pass-I of the assembler (src/assemblerpass1.py, AssemblerPass1),    *)
(*   - Pass-II of the macro processor (src/macro_pass2.py).                *)
(* Text is modelled character by character: a Python str is a sequence of  *)
(* one-character strings, and the str methods the code calls (split,       *)
(* strip, find, upper, int, re) are operators that compute what the        *)
(* methods compute.  An Optional value is a sequence of length 0 (None)    *)
(* or 1 (the value).                                                       *)
(***************************************************************************)
EXTENDS Integers, Sequences, FiniteSets, TLC

VARIABLES
    \* ---- AssemblerPass1 (one driver instance) ----
    pc,                    \* position of process(): "run" (in the for loop) or "done"
    line_no,               \* process(): local line_no
    started,               \* process(): local started
    symtab,                \* self.symtab, in insertion order
    littab,                \* self.littab
    pooltab,               \* self.pooltab
    locctr,                \* self.locctr
    start_address,         \* self.start_address
    intermediate_records,  \* self.intermediate_records
    raw_line,              \* the for loop's raw_line: the source line taken last
    \* ---- expand_intermediate (one call) ----
    mpc,                   \* "read" (top of the for loop), "walk" (in the while loop), "done"
    tables,                \* which MNT/MDT pair was loaded
    n_read,                \* number of input lines read so far
    outf,                  \* the lines written to the output file
    prefix,                \* locals of the current invocation
    macro_name,
    actual_args,
    idx,
    call_line,             \* the for loop's line: the input line taken last (raw_line without "\n")
    call_out,              \* len(outf) when the current invocation started
    \* ---- main of macro_pass2: read_mnt, then read_mdt ----
    lpc,                   \* "mnt" (in read_mnt's loop), "mdt" (in read_mdt's loop), "loaded"
    n_rows,                \* number of rows read from the current file
    load_line,             \* the row read last, as the file gives it
    mnt_read,              \* read_mnt's dict: name -> (mdt_index, num_params)
    mdt_read,              \* read_mdt's dict: index -> text
    \* ---- readers_writers.py (sync_problems.py is the same program) ----
    main_pc,               \* main(): "start" (first for loop), "join" (second), "done"
    main_i,                \* main(): how many threads the current for loop has done
    tpc,                   \* per thread: the line it is about to run, "new", "done"
    tmp,                   \* per thread: the value read for "reader_count += 1 / -= 1"
    reader_count,          \* the global reader_count
    x,                     \* the counter of semaphore x
    rsem,                  \* the counter of semaphore rsem
    wsem                   \* the counter of semaphore wsem

asm_vars == <<pc, line_no, started, symtab, littab, pooltab, locctr, start_address,
              intermediate_records, raw_line>>
macro_vars == <<mpc, tables, n_read, outf, prefix, macro_name, actual_args, idx,
                call_line, call_out>>
load_vars == <<lpc, n_rows, load_line, mnt_read, mdt_read>>
rw_vars == <<main_pc, main_i, tpc, tmp, reader_count, x, rsem, wsem>>
vars == <<asm_vars, macro_vars, load_vars, rw_vars>>

-----------------------------------------------------------------------------
(* Optional values *)

None == <<>>
Some(v) == <<v>>
\* Python truthiness of an Optional[str]: neither None nor "".
Truthy(o) == o # None /\ o[1] # <<>>

-----------------------------------------------------------------------------
(* Python str methods on sequences of characters *)

\* F(v), with v worked out once, before F is applied to it (an operator works
\* its argument out again wherever it refers to it)
At(F(_), v) == CHOOSE r \in {F(t) : t \in {v}} : TRUE

Min(S) == At(LAMBDA T : CHOOSE m \in T : \A n \in T : m <= n, S)

WS == {" ", "\t", "\n"}
DigitChars == <<"0", "1", "2", "3", "4", "5", "6", "7", "8", "9">>
LowerChars == <<"a", "b", "c", "d", "e", "f", "g", "h", "i", "j", "k", "l", "m",
                "n", "o", "p", "q", "r", "s", "t", "u", "v", "w", "x", "y", "z">>
UpperChars == <<"A", "B", "C", "D", "E", "F", "G", "H", "I", "J", "K", "L", "M",
                "N", "O", "P", "Q", "R", "S", "T", "U", "V", "W", "X", "Y", "Z">>

IsDigit(c) == \E i \in DOMAIN DigitChars : DigitChars[i] = c
IsAlpha(c) == (\E i \in DOMAIN LowerChars : LowerChars[i] = c)
              \/ (\E i \in DOMAIN UpperChars : UpperChars[i] = c)
\* the regex class \w
IsWord(c) == IsAlpha(c) \/ IsDigit(c) \/ c = "_"

upper_char(c) ==
    IF \E i \in DOMAIN LowerChars : LowerChars[i] = c
    THEN UpperChars[CHOOSE i \in DOMAIN LowerChars : LowerChars[i] = c]
    ELSE c
RECURSIVE upper(_)
\* str.upper()
upper(s) == IF s = <<>> THEN <<>> ELSE <<upper_char(Head(s))>> \o upper(Tail(s))

RECURSIVE lstrip(_)
lstrip(s) == IF s # <<>> /\ Head(s) \in WS THEN lstrip(Tail(s)) ELSE s

RECURSIVE rstrip(_)
\* str.rstrip()
rstrip(s) == IF s # <<>> /\ s[Len(s)] \in WS THEN rstrip(SubSeq(s, 1, Len(s) - 1)) ELSE s

\* str.strip()
strip(s) == At(lstrip, At(rstrip, s))

RECURSIVE strip_each(_)
\* [x.strip() for x in parts]
strip_each(parts) ==
    IF parts = <<>> THEN <<>> ELSE <<strip(Head(parts))>> \o strip_each(Tail(parts))

RECURSIVE split_ws(_)
\* str.split(): the maximal runs of non-whitespace characters, in order
split_ws(s) ==
    At(LAMBDA t :
           IF t = <<>> THEN <<>>
           ELSE At(LAMBDA n : <<SubSeq(t, 1, n - 1)>> \o split_ws(SubSeq(t, n, Len(t))),
                   LET ws == {i \in 1..Len(t) : t[i] \in WS}
                   IN  IF ws = {} THEN Len(t) + 1 ELSE Min(ws)),
       lstrip(s))

RECURSIVE split_on(_, _)
\* str.split(c) for a one-character separator: every field, empty ones included
split_on(s, c) ==
    LET at == {i \in 1..Len(s) : s[i] = c}
    IN  IF at = {} THEN <<s>>
        ELSE <<SubSeq(s, 1, Min(at) - 1)>> \o split_on(SubSeq(s, Min(at) + 1, Len(s)), c)

RECURSIVE join(_, _)
\* sep.join(parts)
join(parts, sep) ==
    IF parts = <<>> THEN <<>>
    ELSE IF Len(parts) = 1 THEN parts[1]
    ELSE parts[1] \o sep \o join(Tail(parts), sep)

\* str.find(t): the 0-based position of the first occurrence of t in s as a
\* substring, -1 when there is none
find(s, t) ==
    LET at == {i \in 0..(Len(s) - Len(t)) : SubSeq(s, i + 1, i + Len(t)) = t}
    IN  IF at = {} THEN -1 ELSE Min(at)

\* s.replace(" ", "")
remove_spaces(s) == SelectSeq(s, LAMBDA c : c # " ")

AllDigits(s) == s # <<>> /\ \A i \in 1..Len(s) : IsDigit(s[i])

\* re.fullmatch(r"-?\d+", s)
is_int_text(s) == IF s # <<>> /\ Head(s) = "-" THEN AllDigits(Tail(s)) ELSE AllDigits(s)

DigitVal(c) == (CHOOSE i \in DOMAIN DigitChars : DigitChars[i] = c) - 1

RECURSIVE digits_value(_)
digits_value(s) ==
    IF s = <<>> THEN 0
    ELSE 10 * digits_value(SubSeq(s, 1, Len(s) - 1)) + DigitVal(s[Len(s)])

\* int(s) succeeds: optional surrounding whitespace, optional sign, digits
int_ok(s) ==
    LET t == strip(s)
    IN  IF t # <<>> /\ Head(t) \in {"-", "+"} THEN AllDigits(Tail(t)) ELSE AllDigits(t)

\* int(s), for s with int_ok(s)
to_int(s) ==
    LET t == strip(s)
    IN  IF Head(t) = "-" THEN 0 - digits_value(Tail(t))
        ELSE IF Head(t) = "+" THEN digits_value(Tail(t))
        ELSE digits_value(t)

-----------------------------------------------------------------------------
(* AssemblerPass1: the class tables *)

W_MOVER == <<"M", "O", "V", "E", "R">>
W_MOVEM == <<"M", "O", "V", "E", "M">>
W_ADD == <<"A", "D", "D">>
W_SUB == <<"S", "U", "B">>
W_MULT == <<"M", "U", "L", "T">>
W_DIV == <<"D", "I", "V">>
W_BC == <<"B", "C">>
W_COMP == <<"C", "O", "M", "P">>
W_READ == <<"R", "E", "A", "D">>
W_PRINT == <<"P", "R", "I", "N", "T">>
W_START == <<"S", "T", "A", "R", "T">>
W_END == <<"E", "N", "D">>
W_ORIGIN == <<"O", "R", "I", "G", "I", "N">>
W_EQU == <<"E", "Q", "U">>
W_LTORG == <<"L", "T", "O", "R", "G">>
W_DS == <<"D", "S">>
W_DC == <<"D", "C">>
W_AREG == <<"A", "R", "E", "G">>
W_BREG == <<"B", "R", "E", "G">>
W_CREG == <<"C", "R", "E", "G">>
W_DREG == <<"D", "R", "E", "G">>

\* AssemblerPass1.OPCODES: name -> (class, length in words)
OPCODES ==
    [w \in {W_MOVER, W_MOVEM, W_ADD, W_SUB, W_MULT, W_DIV, W_BC, W_COMP, W_READ, W_PRINT}
        |-> <<"IS", 1>>]
DIRECTIVES == {W_START, W_END, W_ORIGIN, W_EQU, W_LTORG, W_DS, W_DC}
REGISTER_SET == {W_AREG, W_BREG, W_CREG, W_DREG}

\* self.literal_pattern: ^=('[^']'|\-?\d+)$
literal_pattern(s) ==
    /\ Len(s) >= 2
    /\ s[1] = "="
    /\ LET r == Tail(s)
       IN  \/ Len(r) = 3 /\ r[1] = "'" /\ r[2] # "'" /\ r[3] = "'"
           \/ is_int_text(r)

is_literal(token) == literal_pattern(strip(token))
is_register(token) == upper(token) \in REGISTER_SET

-----------------------------------------------------------------------------
(* AssemblerPass1: helpers for the tables *)

\* Symbol(name, address, defined), forward_references = []
Symbol(name, address, defined) ==
    [name |-> name, address |-> address, defined |-> defined, forward_references |-> <<>>]
\* Literal(literal), address = None
Literal(lit) == [literal |-> lit, address |-> None]

InSymtab(tab, name) == \E i \in 1..Len(tab) : tab[i].name = name
SymIndex(tab, name) == CHOOSE i \in 1..Len(tab) : tab[i].name = name

\* Variant of add_symbol that overwrites the address of a known symbol even with
\* None (the "if address is not None" test left out).
add_symbol_unguarded(tab, name, address, defined, ln) ==
    LET t1 == IF InSymtab(tab, name)
              THEN [tab EXCEPT ![SymIndex(tab, name)].address = address,
                               ![SymIndex(tab, name)].defined = defined \/ @]
              ELSE Append(tab, Symbol(name, address, defined))
    IN  IF ~defined
        THEN [t1 EXCEPT ![SymIndex(t1, name)].forward_references = Append(@, ln)]
        ELSE t1

\* Variant of add_symbol that updates the address of a known symbol and leaves
\* its defined flag as it was.
add_symbol_flag_kept(tab, name, address, defined, ln) ==
    LET t1 == IF InSymtab(tab, name)
              THEN IF address # None
                   THEN [tab EXCEPT ![SymIndex(tab, name)].address = address]
                   ELSE tab
              ELSE Append(tab, Symbol(name, address, defined))
    IN  IF ~defined
        THEN [t1 EXCEPT ![SymIndex(t1, name)].forward_references = Append(@, ln)]
        ELSE t1

\* add_symbol, returning the new symbol table (line_no is never None in the callers)
add_symbol(tab, name, address, defined, ln) ==
    LET t1 == IF InSymtab(tab, name)
              THEN IF address # None
                   THEN [tab EXCEPT ![SymIndex(tab, name)].address = address,
                                    ![SymIndex(tab, name)].defined = defined \/ @]
                   ELSE tab
              ELSE Append(tab, Symbol(name, address, defined))
    IN  IF ~defined
        THEN [t1 EXCEPT ![SymIndex(t1, name)].forward_references = Append(@, ln)]
        ELSE t1

\* Variant of add_literal that records a pool start for every new literal.
add_literal_opens_every_time(lt, pt, lit) ==
    IF \E i \in 1..Len(lt) : lt[i].literal = lit
    THEN [littab |-> lt, pooltab |-> pt]
    ELSE [littab |-> Append(lt, Literal(lit)), pooltab |-> Append(pt, Len(lt))]

\* Variant of add_literal that looks for the text in the open pool only.
add_literal_per_pool(lt, pt, lit) ==
    IF pt # <<>> /\ \E i \in (pt[Len(pt)] + 1)..Len(lt) : lt[i].literal = lit
    THEN [littab |-> lt, pooltab |-> pt]
    ELSE [littab |-> Append(lt, Literal(lit)),
          pooltab |-> IF pt = <<>> THEN Append(pt, Len(lt)) ELSE pt]

\* add_literal, returning the new (littab, pooltab)
add_literal(lt, pt, lit) ==
    IF \E i \in 1..Len(lt) : lt[i].literal = lit
    THEN [littab |-> lt, pooltab |-> pt]
    ELSE [littab |-> Append(lt, Literal(lit)),
          pooltab |-> IF pt = <<>> THEN Append(pt, Len(lt)) ELSE pt]

RECURSIVE assign_pool_same_address(_, _, _)
\* Variant of the loop of process_literal_pool that never advances the counter.
assign_pool_same_address(lt, i, lc) ==
    IF i >= Len(lt) THEN [littab |-> lt, locctr |-> lc]
    ELSE IF lt[i + 1].address = None
    THEN assign_pool_same_address([lt EXCEPT ![i + 1].address = Some(lc)], i + 1, lc)
    ELSE assign_pool_same_address(lt, i + 1, lc)

RECURSIVE assign_pool(_, _, _)
\* the for loop of process_literal_pool over the 0-based indices i .. len(littab)-1
assign_pool(lt, i, lc) ==
    IF i >= Len(lt) THEN [littab |-> lt, locctr |-> lc]
    ELSE IF lt[i + 1].address = None
    THEN assign_pool([lt EXCEPT ![i + 1].address = Some(lc)], i + 1, lc + 1)
    ELSE assign_pool(lt, i + 1, lc)

RECURSIVE assign_all(_, _, _)
assign_all(lt, i, lc) ==
    IF i >= Len(lt) THEN [littab |-> lt, locctr |-> lc]
    ELSE assign_all([lt EXCEPT ![i + 1].address = Some(lc)], i + 1, lc + 1)

\* Variant of process_literal_pool that addresses the whole table again, from
\* index 0 and whether or not a literal has an address.
process_literal_pool_whole_table(lt, pt, lc) ==
    IF pt = <<>> THEN [littab |-> lt, pooltab |-> pt, locctr |-> lc]
    ELSE LET r == assign_all(lt, 0, lc)
         IN  [littab |-> r.littab, pooltab |-> SubSeq(pt, 1, Len(pt) - 1),
              locctr |-> r.locctr]

\* Variant of process_literal_pool that reserves a word when no pool is open.
process_literal_pool_reserves_word(lt, pt, lc) ==
    IF pt = <<>> THEN [littab |-> lt, pooltab |-> pt, locctr |-> lc + 1]
    ELSE LET pool_start_idx == pt[Len(pt)]
             r == assign_pool(lt, pool_start_idx, lc)
         IN  [littab |-> r.littab, pooltab |-> SubSeq(pt, 1, Len(pt) - 1),
              locctr |-> r.locctr]

\* process_literal_pool, returning the new (littab, pooltab, locctr)
process_literal_pool(lt, pt, lc) ==
    IF pt = <<>> THEN [littab |-> lt, pooltab |-> pt, locctr |-> lc]
    ELSE LET pool_start_idx == pt[Len(pt)]
             r == assign_pool(lt, pool_start_idx, lc)
         IN  [littab |-> r.littab, pooltab |-> SubSeq(pt, 1, Len(pt) - 1),
              locctr |-> r.locctr]

\* Variant of the END loop that allocates nothing.
flush_none(lt, pt, lc) == [littab |-> lt, pooltab |-> pt, locctr |-> lc]

RECURSIVE flush_all(_, _, _)
\* while self.pooltab: self.process_literal_pool()
flush_all(lt, pt, lc) ==
    IF pt = <<>> THEN [littab |-> lt, pooltab |-> pt, locctr |-> lc]
    ELSE LET r == process_literal_pool(lt, pt, lc)
         IN  flush_all(r.littab, r.pooltab, r.locctr)

-----------------------------------------------------------------------------
(* AssemblerPass1: parsing utilities *)

\* re.split(r"[;#]", line)[0]
before_comment(line) ==
    LET at == {i \in 1..Len(line) : line[i] \in {";", "#"}}
    IN  IF at = {} THEN line ELSE SubSeq(line, 1, Min(at) - 1)

\* operands = ",".join([op.strip() for op in operands.split(",")]), when operands is truthy
normalise_operands(joined) ==
    IF joined # <<>>
    THEN Some(join(strip_each(split_on(joined, ",")), <<",">>))
    ELSE Some(joined)

\* the end of parse_line: the opcode and the operands of the tokens after the label
parse_opcode(label, tokens) ==
    IF tokens = <<>> THEN [label |-> label, opcode |-> None, operands |-> None]
    ELSE [label |-> label,
          opcode |-> Some(upper(tokens[1])),
          operands |-> IF Len(tokens) > 1
                       THEN normalise_operands(join(Tail(tokens), <<" ">>))
                       ELSE None]

\* the heuristic of parse_line: with no label yet and two tokens or more, a first
\* token that is no opcode, directive, register or literal is a label
implicit_label(label, tokens, t0) ==
    /\ label = None
    /\ Len(tokens) >= 2
    /\ t0 \notin DOMAIN OPCODES
    /\ t0 \notin DIRECTIVES
    /\ ~is_register(t0)
    /\ ~is_literal(t0)

parse_heuristic(label, tokens) ==
    IF tokens # <<>> /\ implicit_label(label, tokens, upper(tokens[1]))
    THEN parse_opcode(Some(tokens[1]), Tail(tokens))
    ELSE parse_opcode(label, tokens)

\* parse_line after the comment is removed: a first token ending with ':' is a label
parse_tokens(tokens) ==
    IF tokens = <<>> THEN [label |-> None, opcode |-> None, operands |-> None]
    ELSE IF tokens[1][Len(tokens[1])] = ":"
    THEN parse_heuristic(Some(SubSeq(tokens[1], 1, Len(tokens[1]) - 1)), Tail(tokens))
    ELSE parse_heuristic(None, tokens)

\* parse_line: (label, opcode, operands), each an Optional[str]
parse_line(line) == parse_tokens(split_ws(strip(before_comment(line))))

\* the greedy match of [A-Za-z_]\w* at the start of s: its length, 0 when none
name_prefix_len(s) ==
    IF s = <<>> \/ ~(IsAlpha(s[1]) \/ s[1] = "_") THEN 0
    ELSE LET stop == {i \in 1..Len(s) : ~IsWord(s[i])}
         IN  IF stop = {} THEN Len(s) ELSE Min(stop) - 1

\* the end of evaluate_expression: the symbol's address plus the offset
symbol_value(tab, sym_name, offset) ==
    IF ~InSymtab(tab, sym_name) THEN None
    ELSE IF tab[SymIndex(tab, sym_name)].address = None THEN None
    ELSE IF offset # <<>>
    THEN Some(tab[SymIndex(tab, sym_name)].address[1] + to_int(offset))
    ELSE tab[SymIndex(tab, sym_name)].address

\* re.match(r"^([A-Za-z_]\w*)([+-]\d+)?$", expr), then the lookup
match_expression(tab, expr, n) ==
    IF /\ n > 0
       /\ \/ n = Len(expr)
          \/ expr[n + 1] \in {"+", "-"} /\ AllDigits(SubSeq(expr, n + 2, Len(expr)))
    THEN symbol_value(tab, SubSeq(expr, 1, n), SubSeq(expr, n + 1, Len(expr)))
    ELSE None

evaluate_clean(tab, expr) ==
    IF is_int_text(expr) THEN Some(to_int(expr))
    ELSE match_expression(tab, expr, name_prefix_len(expr))

\* evaluate_expression: Optional[int]
evaluate_expression(tab, expr) == evaluate_clean(tab, remove_spaces(expr))

-----------------------------------------------------------------------------
(* AssemblerPass1.process: the source lines it may be given *)

\* the number of source lines of a pass
MaxLines == 4

\* The lines f.readlines() may return, each with its line break.
SourceLines == {
    <<"S", "T", "A", "R", "T", " ", "1", "0", "0", "\n">>,
    <<"A", " ", "M", "O", "V", "E", "R", " ", "A", "R", "E", "G", ",", " ", "=", "5", "\n">>,
    <<"L", "T", "O", "R", "G", "\n">>,
    <<"E", "N", "D", "\n">>,
    <<" ", ";", " ", "c", "\n">>,
    <<"S", "U", "B", " ", "A", ",", "=", "7", "\n">>,
    <<"B", " ", "E", "Q", "U", " ", "A", "+", "1", "\n">>,
    <<"O", "R", "I", "G", "I", "N", " ", "A", "+", "1", "\n">>,
    <<"B", " ", "D", "S", " ", "2", "\n">>,
    <<"D", "C", " ", "1", " ", "\n">>,
    <<"B", ":", " ", "H", "L", "T", " ", "A", "\n">>,
    <<"L", " ", "O", "R", "I", "G", "I", "N", " ", "7", "\n">>
}

\* parse_line(raw_line), for each line
ParsedLine == [raw \in SourceLines |-> parse_line(raw)]

-----------------------------------------------------------------------------
(* AssemblerPass1.process: one iteration of the for loop per action *)

\* an empty dict
EmptyDict == [k \in {} |-> <<>>]

\* thread1..thread3 run reader, thread4..thread6 run writer
Readers == {1, 2, 3}
Writers == {4, 5, 6}
Threads == Readers \cup Writers

RWIdle ==
    /\ main_pc = "idle" /\ main_i = 0
    /\ tpc = [t \in Threads |-> "new"] /\ tmp = [t \in Threads |-> 0]
    /\ reader_count = 0 /\ x = 1 /\ rsem = 1 /\ wsem = 1

LoadIdle ==
    /\ lpc = "idle" /\ n_rows = 0 /\ load_line = <<>>
    /\ mnt_read = EmptyDict /\ mdt_read = EmptyDict

MacroIdle ==
    /\ mpc = "idle" /\ tables = 0 /\ n_read = 0 /\ outf = <<>>
    /\ prefix = <<>> /\ macro_name = <<>> /\ actual_args = <<>> /\ idx = 0
    /\ call_line = <<>> /\ call_out = 0

\* AssemblerPass1.__init__ and the first two lines of process()
AsmInit ==
    /\ MacroIdle
    /\ LoadIdle
    /\ RWIdle
    /\ pc = "run"
    /\ line_no = 0
    /\ started = FALSE
    /\ symtab = <<>>
    /\ littab = <<>>
    /\ pooltab = <<>>
    /\ locctr = 0
    /\ start_address = 0
    /\ intermediate_records = <<>>
    /\ raw_line = <<>>

\* the guard of one iteration: the for loop has a next line
Reading == pc = "run" /\ line_no < MaxLines

\* the branch of the loop body a parsed line takes
Branch(p) ==
    IF p.opcode = None /\ p.label = None THEN "blank"
    ELSE IF p.opcode = Some(W_START) THEN "START"
    ELSE IF p.opcode # None /\ p.opcode[1] \in DIRECTIVES THEN
        CASE p.opcode[1] = W_END -> "END"
          [] p.opcode[1] = W_LTORG -> "LTORG"
          [] p.opcode[1] = W_ORIGIN -> "ORIGIN"
          [] p.opcode[1] = W_EQU -> "EQU"
          [] p.opcode[1] = W_DS -> "DS"
          [] p.opcode[1] = W_DC -> "DC"
    ELSE IF p.opcode # None /\ p.opcode[1] \in DOMAIN OPCODES THEN "IS"
    ELSE "unknown"

\* Variant of entered that records a line without its location counter.
entered_without_address(st, lc, sa, recs, p, raw, ln) ==
    [locctr |-> lc,
     start_address |-> sa,
     symtab |-> IF Truthy(p.label) THEN add_symbol(st, p.label[1], Some(lc), TRUE, ln) ELSE st,
     records |-> Append(recs, <<None, rstrip(raw)>>),
     raw_line |-> raw]

\* Variant of entered that keeps only the record of the current line.
entered_keeps_one_record(st, lc, sa, recs, p, raw, ln) ==
    [locctr |-> lc,
     start_address |-> sa,
     symtab |-> IF Truthy(p.label) THEN add_symbol(st, p.label[1], Some(lc), TRUE, ln) ELSE st,
     records |-> <<<<Some(lc), rstrip(raw)>>>>,
     raw_line |-> raw]

\* "if not started" (implicit start), "if label" (definition at the current
\* counter) and the record of the line: what every line that is neither blank
\* nor START goes through before its opcode is looked at
entered(st, lc, sa, recs, p, raw, ln) ==
    [locctr |-> lc,
     start_address |-> sa,
     symtab |-> IF Truthy(p.label) THEN add_symbol(st, p.label[1], Some(lc), TRUE, ln) ELSE st,
     records |-> Append(recs, <<Some(lc), rstrip(raw)>>),
     raw_line |-> raw]

Entered(p, raw) ==
    IF started
    THEN entered(symtab, locctr, start_address, intermediate_records, p, raw, line_no + 1)
    ELSE entered(symtab, 0, 0, intermediate_records, p, raw, line_no + 1)

\* the state after one iteration of the for loop
Commit(raw, recs, st, sa, lt, pt, lc) ==
    /\ line_no' = line_no + 1
    /\ raw_line' = raw
    /\ started' = TRUE
    /\ intermediate_records' = recs
    /\ symtab' = st
    /\ start_address' = sa
    /\ littab' = lt
    /\ pooltab' = pt
    /\ locctr' = lc
    /\ UNCHANGED pc
    /\ UNCHANGED macro_vars
    /\ UNCHANGED load_vars
    /\ UNCHANGED rw_vars

\* an iteration that leaves the literal tables alone
CommitLine(e, st, lc) ==
    Commit(e.raw_line, e.records, st, e.start_address, littab, pooltab, lc)
\* an iteration that ends with the literal tables and the counter of r
CommitPool(e, r) ==
    Commit(e.raw_line, e.records, e.symtab, e.start_address, r.littab, r.pooltab, r.locctr)

\* Variant of the blank-line branch that takes the line as the start of the
\* program.
ProcessBlank_starts ==
    \E raw \in SourceLines :
        /\ Reading
        /\ Branch(ParsedLine[raw]) = "blank"
        /\ line_no' = line_no + 1
        /\ raw_line' = raw
        /\ started' = TRUE
        /\ intermediate_records' = Append(intermediate_records, <<None, rstrip(raw)>>)
        /\ UNCHANGED <<pc, symtab, littab, pooltab, locctr, start_address>>
        /\ UNCHANGED macro_vars
        /\ UNCHANGED load_vars
        /\ UNCHANGED rw_vars

\* blank/comment lines
ProcessBlank ==
    \E raw \in SourceLines :
        /\ Reading
        /\ Branch(ParsedLine[raw]) = "blank"
        /\ line_no' = line_no + 1
        /\ raw_line' = raw
        /\ intermediate_records' = Append(intermediate_records, <<None, rstrip(raw)>>)
        /\ UNCHANGED <<pc, started, symtab, littab, pooltab, locctr, start_address>>
        /\ UNCHANGED macro_vars
        /\ UNCHANGED load_vars
        /\ UNCHANGED rw_vars

\* Variant of start_locctr that starts every program at 0.
start_locctr_from_zero(tab, operands) == 0

\* the location counter a START line sets
start_locctr(tab, operands) ==
    IF Truthy(operands)
    THEN IF int_ok(operands[1]) THEN to_int(operands[1])
         ELSE LET val == evaluate_expression(tab, operands[1])
              IN  IF val # None THEN val[1] ELSE 0
    ELSE 0

\* the start address a START line sets (kept when the operand is no integer)
start_start_address(sa, operands) ==
    IF Truthy(operands)
    THEN IF int_ok(operands[1]) THEN to_int(operands[1]) ELSE sa
    ELSE 0

StartCommit(p, raw, lc) ==
    Commit(raw, Append(intermediate_records, <<Some(lc), rstrip(raw)>>),
           IF Truthy(p.label)
           THEN add_symbol(symtab, p.label[1], Some(lc), TRUE, line_no + 1)
           ELSE symtab,
           start_start_address(start_address, p.operands),
           littab, pooltab, lc)

StartLine(p, raw) ==
    Branch(p) = "START" /\ StartCommit(p, raw, start_locctr(symtab, p.operands))

\* START directive handling
ProcessStart == \E raw \in SourceLines : Reading /\ StartLine(ParsedLine[raw], raw)

EndBody(e) == CommitPool(e, flush_all(littab, pooltab, e.locctr))
EndLine(p, raw) == Branch(p) = "END" /\ EndBody(Entered(p, raw))

\* END: allocate every remaining pool
ProcessEnd == \E raw \in SourceLines : Reading /\ EndLine(ParsedLine[raw], raw)

LtorgBody(e) == CommitPool(e, process_literal_pool(littab, pooltab, e.locctr))
LtorgLine(p, raw) == Branch(p) = "LTORG" /\ LtorgBody(Entered(p, raw))

\* LTORG: allocate the current pool
ProcessLtorg == \E raw \in SourceLines : Reading /\ LtorgLine(ParsedLine[raw], raw)

\* val = evaluate_expression(operands), and int(operands) when that is None
origin_fallback(val, operands) ==
    IF val # None THEN val
    ELSE IF int_ok(operands) THEN Some(to_int(operands)) ELSE None

\* Variant of origin_locctr that puts the counter to 0 when the operand does not
\* resolve.
origin_locctr_resets(tab, operands, lc) ==
    IF Truthy(operands)
    THEN LET val == origin_fallback(evaluate_expression(tab, operands[1]), operands[1])
         IN  IF val # None THEN val[1] ELSE 0
    ELSE 0

\* the location counter after an ORIGIN line
origin_locctr(tab, operands, lc) ==
    IF Truthy(operands)
    THEN LET val == origin_fallback(evaluate_expression(tab, operands[1]), operands[1])
         IN  IF val # None THEN val[1] ELSE lc
    ELSE lc

OriginBody(p, e) == CommitLine(e, e.symtab, origin_locctr(e.symtab, p.operands, e.locctr))
OriginLine(p, raw) == Branch(p) = "ORIGIN" /\ OriginBody(p, Entered(p, raw))

\* ORIGIN
ProcessOrigin == \E raw \in SourceLines : Reading /\ OriginLine(ParsedLine[raw], raw)

\* add_symbol(label, val, True if val is not None else False, line_no)
equ_define(tab, name, val, ln) == add_symbol(tab, name, val, val # None, ln)

\* the EQU branch: the symbol table after "if label and operands: ..."
equ_symtab(tab, label, operands, ln) ==
    IF Truthy(label) /\ Truthy(operands)
    THEN equ_define(tab, label[1], evaluate_expression(tab, operands[1]), ln)
    ELSE tab

EquBody(p, e) == CommitLine(e, equ_symtab(e.symtab, p.label, p.operands, line_no + 1), e.locctr)
EquLine(p, raw) == Branch(p) = "EQU" /\ EquBody(p, Entered(p, raw))

\* EQU
ProcessEqu == \E raw \in SourceLines : Reading /\ EquLine(ParsedLine[raw], raw)

\* the size a DS line reserves
ds_size(tab, operands) ==
    IF Truthy(operands)
    THEN IF int_ok(operands[1]) THEN to_int(operands[1])
         ELSE LET v == evaluate_expression(tab, operands[1])
              IN  IF v # None THEN v[1] ELSE 1
    ELSE 1

\* Variant of the DS branch that takes the size off the counter.
DsBody_releases(p, e) == CommitLine(e, e.symtab, e.locctr - ds_size(e.symtab, p.operands))

DsBody(p, e) == CommitLine(e, e.symtab, e.locctr + ds_size(e.symtab, p.operands))
DsLine(p, raw) == Branch(p) = "DS" /\ DsBody(p, Entered(p, raw))

\* DS
ProcessDs == \E raw \in SourceLines : Reading /\ DsLine(ParsedLine[raw], raw)

DcBody(e) == CommitLine(e, e.symtab, e.locctr + 1)
DcLine(p, raw) == Branch(p) = "DC" /\ DcBody(Entered(p, raw))

\* DC
ProcessDc == \E raw \in SourceLines : Reading /\ DcLine(ParsedLine[raw], raw)

\* ops = [o.strip() for o in operands.split(",") if o.strip() != ""]
operand_list(operands) ==
    IF Truthy(operands)
    THEN SelectSeq(strip_each(split_on(operands[1], ",")), LAMBDA o : o # <<>>)
    ELSE <<>>

\* the literal branch of the operand scan
scan_literal(t, r) == [t EXCEPT !.littab = r.littab, !.pooltab = r.pooltab]

\* Variant of the symbol-reference branch that records only the first reference.
scan_symbol_first_only(t, op, ln) ==
    IF ~InSymtab(t.symtab, op)
    THEN [t EXCEPT !.symtab = add_symbol(t.symtab, op, None, FALSE, ln)]
    ELSE t

\* the symbol-reference branch of the operand scan
scan_symbol(t, op, ln) ==
    IF ~InSymtab(t.symtab, op)
    THEN [t EXCEPT !.symtab = add_symbol(t.symtab, op, None, FALSE, ln)]
    ELSE IF ~t.symtab[SymIndex(t.symtab, op)].defined
    THEN [t EXCEPT !.symtab[SymIndex(t.symtab, op)].forward_references = Append(@, ln)]
    ELSE t

\* one operand of an instruction: the new (symtab, littab, pooltab)
scan_operand(t, op, ln) ==
    IF is_register(op) THEN t
    ELSE IF is_literal(op) THEN scan_literal(t, add_literal(t.littab, t.pooltab, op))
    ELSE IF is_int_text(op) THEN t
    ELSE scan_symbol(t, op, ln)

RECURSIVE scan_operands(_, _, _)
\* for op in ops: ...
scan_operands(t, ops, ln) ==
    IF ops = <<>> THEN t
    ELSE scan_operands(scan_operand(t, Head(ops), ln), Tail(ops), ln)

InstructionCommit(p, e, t) ==
    Commit(e.raw_line, e.records, t.symtab, e.start_address, t.littab, t.pooltab,
           e.locctr + OPCODES[p.opcode[1]][2])
InstructionBody(p, e) ==
    InstructionCommit(p, e,
        scan_operands([symtab |-> e.symtab, littab |-> littab, pooltab |-> pooltab],
                      operand_list(p.operands), line_no + 1))
InstructionLine(p, raw) == Branch(p) = "IS" /\ InstructionBody(p, Entered(p, raw))

\* instructions (IS)
ProcessInstruction == \E raw \in SourceLines : Reading /\ InstructionLine(ParsedLine[raw], raw)

\* Variant of the unknown-opcode branch that reserves a word for the line.
UnknownBody_reserves_word(e) == CommitLine(e, e.symtab, e.locctr + 1)

UnknownBody(e) == CommitLine(e, e.symtab, e.locctr)
UnknownLine(p, raw) == Branch(p) = "unknown" /\ UnknownBody(Entered(p, raw))

\* unknown opcode (or a label alone): no LOC change, the record is kept
ProcessUnknown == \E raw \in SourceLines : Reading /\ UnknownLine(ParsedLine[raw], raw)

EndOfSourceBody(r) ==
    /\ pc' = "done"
    /\ littab' = r.littab
    /\ pooltab' = r.pooltab
    /\ locctr' = r.locctr
    /\ UNCHANGED <<line_no, started, symtab, start_address, intermediate_records, raw_line>>
    /\ UNCHANGED macro_vars
    /\ UNCHANGED load_vars
    /\ UNCHANGED rw_vars

\* Variant of the end of process() that returns without the last flush.
EndOfSource_without_flush ==
    pc = "run" /\ EndOfSourceBody([littab |-> littab, pooltab |-> pooltab, locctr |-> locctr])

\* after all source lines: allocate any remaining literal pools
EndOfSource == pc = "run" /\ EndOfSourceBody(flush_all(littab, pooltab, locctr))

AsmNext ==
    \/ ProcessBlank
    \/ ProcessStart
    \/ ProcessEnd
    \/ ProcessLtorg
    \/ ProcessOrigin
    \/ ProcessEqu
    \/ ProcessDs
    \/ ProcessDc
    \/ ProcessInstruction
    \/ ProcessUnknown
    \/ EndOfSource

SpecAsm == AsmInit /\ [][AsmNext]_vars

-----------------------------------------------------------------------------
(* AssemblerPass1: what the claims speak of *)

\* parse_line of the text of a record (the line without its line break)
ParsedRecord == [t \in {rstrip(raw) : raw \in SourceLines} |-> parse_line(t)]
RecordParse(rec) == ParsedRecord[rec[2]]
RecordLabel(rec) == RecordParse(rec).label

\* a step that processes one source line, and the branch that line takes
LineStep == line_no' = line_no + 1
StepBranch == Branch(RecordParse(intermediate_records'[Len(intermediate_records')]))
StepLabel == RecordLabel(intermediate_records'[Len(intermediate_records')])

\* the 1-based indices of the literals without an address
Pending(lt) == {i \in 1..Len(lt) : lt[i].address = None}

\* a step that runs a pool flush: an LTORG line, an END line or the end of the source
FlushStep == (LineStep /\ StepBranch \in {"END", "LTORG"}) \/ (pc = "run" /\ pc' = "done")

\* the operands of a record's line that the operand scan takes as symbol references
SymbolOperands(rec) ==
    IF Branch(RecordParse(rec)) = "IS"
    THEN {op \in {operand_list(RecordParse(rec).operands)[k] :
                      k \in 1..Len(operand_list(RecordParse(rec).operands))} :
             ~is_register(op) /\ ~is_literal(op) /\ ~is_int_text(op)}
    ELSE {}

Elements(seq) == {seq[k] : k \in 1..Len(seq)}

\* C1 (pool monotonicity): a flush of an open pool at counter c gives the k
\* literals without an address the addresses c, c+1, ..., c+k-1 in table order,
\* changes nothing else in the literal table, and leaves the counter at c+k.
C1_PoolMonotonicity ==
    [][(FlushStep /\ pooltab # <<>>) =>
        /\ Len(littab') = Len(littab)
        /\ \A i \in 1..Len(littab) :
              /\ littab'[i].literal = littab[i].literal
              /\ littab'[i].address =
                    IF i \in Pending(littab)
                    THEN Some(locctr + Cardinality({j \in Pending(littab) : j < i}))
                    ELSE littab[i].address
        /\ locctr' = locctr + Cardinality(Pending(littab))]_vars

\* a flush of a pool of two literals has happened
C1_Witness ==
    /\ Len(littab) = 2
    /\ pooltab = <<>>
    /\ littab[1].address # None
    /\ littab[2].address = Some(littab[1].address[1] + 1)
    /\ locctr = littab[2].address[1] + 1

\* C2 (assigned exactly once): a literal enters the table without an address,
\* gets one only in a step that flushes its pool, and keeps text and address in
\* every step after that.
C2_AddressAssignedOnce ==
    [][/\ Len(littab') >= Len(littab)
       /\ \A i \in 1..Len(littab) :
             /\ littab'[i].literal = littab[i].literal
             /\ littab[i].address # None => littab'[i].address = littab[i].address
             /\ (littab[i].address = None /\ littab'[i].address # None) => FlushStep
       /\ \A i \in (Len(littab) + 1)..Len(littab') : littab'[i].address = None]_vars

\* a literal got its address at a flush, and a later line flushed again or used
\* the same literal text again
C2_Witness ==
    \E i, j \in 1..Len(intermediate_records) :
        /\ i < j
        /\ Branch(RecordParse(intermediate_records[i])) \in {"END", "LTORG"}
        /\ Branch(RecordParse(intermediate_records[j])) \in {"END", "LTORG", "IS"}
        /\ Len(littab) >= 1
        /\ littab[1].address # None
        /\ \/ Branch(RecordParse(intermediate_records[j])) # "IS"
           \/ littab[1].literal \in Elements(operand_list(RecordParse(intermediate_records[j]).operands))

C4_AddressImmutable ==
    [][\A i \in 1..Len(symtab) :
          symtab[i].defined => symtab'[i].address = symtab[i].address]_vars

\* C4 as amended: a defined symbol stays in the table, stays defined and keeps an
\* address; its address changes only in a step that processes a line carrying the
\* symbol as its label, and its forward references are never removed.
C4_AddressChangesOnlyByRedefinition ==
    [][/\ Len(symtab') >= Len(symtab)
       /\ \A i \in 1..Len(symtab) :
             /\ symtab'[i].name = symtab[i].name
             /\ SubSeq(symtab'[i].forward_references, 1, Len(symtab[i].forward_references))
                    = symtab[i].forward_references
             /\ symtab[i].defined =>
                   /\ symtab'[i].defined
                   /\ symtab'[i].address # None
                   /\ symtab'[i].address # symtab[i].address =>
                         (LineStep /\ StepLabel = Some(symtab[i].name))]_vars

\* a symbol was defined by one line and redefined, at another address, by a later one
C4_Witness ==
    \E i, j \in 1..Len(intermediate_records) :
        /\ i < j
        /\ RecordLabel(intermediate_records[i]) # None
        /\ RecordLabel(intermediate_records[j]) = RecordLabel(intermediate_records[i])
        /\ \E k \in 1..Len(symtab) :
              /\ Some(symtab[k].name) = RecordLabel(intermediate_records[i])
              /\ symtab[k].defined
              /\ symtab[k].address # intermediate_records[i][1]

\* C5 as claimed: the counter after an END line equals the counter before it.
C5_EndKeepsCounter ==
    [][(LineStep /\ StepBranch = "END") => locctr' = locctr]_vars

\* C5 as amended: an END line closes the open pool, leaves no literal without an
\* address, and advances the counter by the number of literals that had none (so
\* the counter is unchanged exactly when no literal was pending).
C5_EndFlushesAndAdvances ==
    [][(LineStep /\ StepBranch = "END") =>
        /\ pooltab' = <<>>
        /\ Pending(littab') = {}
        /\ Len(littab') = Len(littab)
        /\ locctr' = locctr + Cardinality(Pending(littab))]_vars

\* the last line processed was an END that addressed a pending literal
C5_Witness ==
    /\ intermediate_records # <<>>
    /\ Branch(RecordParse(intermediate_records[Len(intermediate_records)])) = "END"
    /\ littab # <<>>
    /\ littab[Len(littab)].address = Some(locctr - 1)
    /\ intermediate_records[Len(intermediate_records)][1] = littab[1].address

\* C6 as claimed: after an EQU line with label and operand, the label has the
\* operand's value and defined = true when the operand resolves, and defined =
\* false with address none when it does not; the counter is unchanged.
C6_EquDefinesOrLeavesUndefined ==
    [][(LineStep /\ StepBranch = "EQU" /\ Truthy(StepLabel)
          /\ Truthy(RecordParse(intermediate_records'[Len(intermediate_records')]).operands)) =>
        LET val == evaluate_expression(symtab,
                       RecordParse(intermediate_records'[Len(intermediate_records')]).operands[1])
            sym == symtab'[SymIndex(symtab', StepLabel[1])]
        IN  /\ InSymtab(symtab', StepLabel[1])
            /\ val # None => (sym.address = val /\ sym.defined)
            /\ val = None => (sym.address = None /\ ~sym.defined)
            /\ locctr' = locctr]_vars

\* C7: a symbol with defined = false has address none, in every state.
C7_UndefinedHasNoAddress ==
    \A i \in 1..Len(symtab) : ~symtab[i].defined => symtab[i].address = None

\* the table holds an undefined symbol beside a defined one
C7_Witness ==
    \E i, j \in 1..Len(symtab) :
        /\ ~symtab[i].defined
        /\ symtab[i].forward_references # <<>>
        /\ symtab[j].defined

-----------------------------------------------------------------------------
(* macro_pass2: the tables and the input of one expand_intermediate call *)

W_INCR == <<"I", "N", "C", "R">>
W_DECR == <<"D", "E", "C", "R">>
W_MEND == <<"M", "E", "N", "D">>

\* the number of lines of the intermediate file
MaxInput == 3

\* The MDT texts are written as templates: a text part, or a placeholder with its
\* 1-based index and the whitespace the upstream pass put around the comma.
Txt(chars) == [kind |-> "text", chars |-> chars, index |-> 0, before |-> <<>>, after |-> <<>>]
Par(i, before, after) ==
    [kind |-> "param", chars |-> <<>>, index |-> i, before |-> before, after |-> after]

\* the text of a template part: a placeholder is written (P,i)
RenderPart(part) ==
    IF part.kind = "text" THEN part.chars
    ELSE <<"(", "P">> \o part.before \o <<",">> \o part.after
             \o <<DigitChars[part.index + 1]>> \o <<")">>

RECURSIVE Render(_)
Render(parts) == IF parts = <<>> THEN <<>> ELSE RenderPart(Head(parts)) \o Render(Tail(parts))

\* the MDT files a run may be given, as templates: index -> parts
MDT_Example ==
    (10 :> <<Txt(<<"I", "N", "C", "R", " ">>), Par(1, <<>>, <<>>), Txt(<<",">>), Par(2, <<>>, <<>>)>> @@
     11 :> <<Txt(<<"A", "D", "D", " ">>), Par(1, <<>>, <<>>), Txt(<<",">>), Par(2, <<>>, <<>>)>> @@
     12 :> <<Txt(<<"M", "E", "N", "D">>)>>)
MDT_Gaps ==
    (1 :> <<Txt(<<"I", "N", "C", "R", " ">>), Par(1, <<>>, <<>>), Txt(<<",">>), Par(2, <<>>, <<>>)>> @@
     2 :> <<Txt(<<"M", "O", "V", "E", "R", " ", "A", "R", "E", "G", ",", " ">>), Par(1, <<>>, <<" ">>)>> @@
     3 :> <<Txt(<<"I", "N", "C", "R", " ">>), Par(2, <<>>, <<>>)>> @@
     4 :> <<Txt(<<"A", "D", "D", " ">>), Par(2, <<>>, <<>>), Par(1, <<>>, <<>>), Txt(<<",">>), Par(3, <<>>, <<>>)>> @@
     5 :> <<Txt(<<"P", "R", "I", "N", "T", " ", "X", " ", " ">>)>> @@
     6 :> <<Txt(<<" ", "m", "e", "n", "d", " ">>)>> @@
     8 :> <<Txt(<<"S", "U", "B", " ">>), Par(1, <<>>, <<>>)>> @@
     9 :> <<Txt(<<"D", "C", " ">>), Par(2, <<>>, <<>>)>> @@
     11 :> <<Txt(<<"M", "E", "N", "D">>)>>)
MDT_Templates == <<MDT_Example, MDT_Gaps>>

\* read_mnt's result for each run: name -> (mdt_index, num_params)
MNT_Tables == <<
    (W_INCR :> <<10, 2>>),
    (W_INCR :> <<1, 2>> @@ W_DECR :> <<8, 1>>)
>>

\* read_mdt's result for each run: index -> text
MDT_Tables ==
    [t \in DOMAIN MDT_Templates |->
        [i \in DOMAIN MDT_Templates[t] |-> Render(MDT_Templates[t][i])]]

\* the lines of the intermediate file, each with its line break
InputLines == {
    <<" ", " ", "I", "N", "C", "R", " ", "X", ",", "5", "\n">>,
    <<"L", "O", "O", "P", " ", "I", "N", "C", "R", " ", "X", "\n">>,
    <<"M", "O", "V", "E", "R", " ", "A", "R", "E", "G", ",", " ", "=", "5", "\n">>,
    <<"\n">>,
    <<"X", "I", "N", "C", "R", " ", "I", "N", "C", "R", " ", "A", ",", "5", "\n">>,
    <<"I", "N", "C", "R", " ", "X", ",", "5", ",", "Z", "\n">>,
    <<"I", "N", "C", "R", " ", ",", "5", "\n">>,
    <<"D", "E", "C", "R", " ", "Y", "\n">>
}

-----------------------------------------------------------------------------
(* macro_pass2: parse_macro_call_line and substitute_params_in_mdt_line *)

RECURSIVE rstrip_nl(_)
\* str.rstrip("\n")
rstrip_nl(s) ==
    IF s # <<>> /\ s[Len(s)] = "\n" THEN rstrip_nl(SubSeq(s, 1, Len(s) - 1)) ELSE s

\* args = [a.strip() for a in rest.split(',') if a.strip() != ""], [] for an empty rest
call_args(rest) ==
    IF rest # <<>>
    THEN SelectSeq(strip_each(split_on(rest, ",")), LAMBDA a : a # <<>>)
    ELSE <<>>

\* Variant of call_at that drops the text before the macro name.
call_at_without_prefix(stripped, tok, tok_pos) ==
    [prefix |-> <<>>,
     macro_name |-> Some(tok),
     args |-> call_args(strip(SubSeq(stripped, tok_pos + Len(tok) + 1, Len(stripped))))]

\* the return value for the token tok found at str.find's position tok_pos
call_at(stripped, tok, tok_pos) ==
    [prefix |-> SubSeq(stripped, 1, tok_pos),
     macro_name |-> Some(tok),
     args |-> call_args(strip(SubSeq(stripped, tok_pos + Len(tok) + 1, Len(stripped))))]

NoCall == [prefix |-> None, macro_name |-> None, args |-> None]

RECURSIVE first_macro_token(_, _, _)
\* for idx, tok in enumerate(tokens): if tok in mnt: ... return
first_macro_token(stripped, tokens, mnt) ==
    IF tokens = <<>> THEN NoCall
    ELSE IF Head(tokens) \in DOMAIN mnt
    THEN call_at(stripped, Head(tokens), find(stripped, Head(tokens)))
    ELSE first_macro_token(stripped, Tail(tokens), mnt)

parse_stripped(stripped, mnt) ==
    IF strip(stripped) = <<>> THEN NoCall
    ELSE first_macro_token(stripped, split_ws(stripped), mnt)

\* parse_macro_call_line: (prefix, macro_name, arg_list), or (None, None, None)
parse_macro_call_line(line, mnt) == parse_stripped(rstrip_nl(line), mnt)

\* the number of whitespace characters s starts with (the regex \s*)
leading_ws(s) == Len(s) - Len(lstrip(s))

\* the number of digits s starts with (the regex \d+)
leading_digits(s) ==
    LET stop == {i \in 1..Len(s) : ~IsDigit(s[i])}
    IN  IF stop = {} THEN Len(s) ELSE Min(stop) - 1

NoMatch == [len |-> 0, digits |-> <<>>]

\* PARAM_TOKEN_RE after "(P\s*,\s*" has taken k characters: (\d+)\)
match_digits(s, k, d) ==
    IF d > 0 /\ k + d < Len(s) /\ s[k + d + 1] = ")"
    THEN [len |-> k + d + 1, digits |-> SubSeq(s, k + 1, k + d)]
    ELSE NoMatch

match_after_comma(s, k) ==
    At(LAMBDA d : match_digits(s, k, d), leading_digits(SubSeq(s, k + 1, Len(s))))

\* PARAM_TOKEN_RE after "(P\s*" has taken k characters: ,\s*
match_comma(s, k) ==
    IF k < Len(s) /\ s[k + 1] = ","
    THEN At(LAMBDA j : match_after_comma(s, j), k + 1 + leading_ws(SubSeq(s, k + 2, Len(s))))
    ELSE NoMatch

\* PARAM_TOKEN_RE.match at the start of s: the length of the match (0: none) and group 1
param_match(s) ==
    IF Len(s) >= 2 /\ s[1] = "(" /\ s[2] = "P"
    THEN At(LAMBDA k : match_comma(s, k), 2 + leading_ws(SubSeq(s, 3, Len(s))))
    ELSE NoMatch

\* Variant of repl's lookup that takes the index as 0-based.
param_value_zero_based(i, args) == IF 0 <= i /\ i < Len(args) THEN args[i + 1] ELSE <<>>

\* repl: actual_args[i-1] when 1 <= i <= len(actual_args), "" otherwise
param_value(i, args) == IF 1 <= i /\ i <= Len(args) THEN args[i] ELSE <<>>

RECURSIVE sub_scan(_, _)
RECURSIVE sub_at(_, _, _)
\* PARAM_TOKEN_RE.sub(repl, s): the matches are found left to right, the text a
\* match is replaced by is not scanned again
sub_at(s, args, m) ==
    IF m.len > 0
    THEN param_value(to_int(m.digits), args) \o sub_scan(SubSeq(s, m.len + 1, Len(s)), args)
    ELSE <<Head(s)>> \o sub_scan(Tail(s), args)
sub_scan(s, args) ==
    At(LAMBDA t : IF t = <<>> THEN <<>> ELSE At(LAMBDA m : sub_at(t, args, m), param_match(t)),
       s)

\* substitute_params_in_mdt_line
substitute_params_in_mdt_line(mdt_line, args) == sub_scan(mdt_line, args)

-----------------------------------------------------------------------------
(* macro_pass2.expand_intermediate: the for loop over the input lines, and the
   while loop over the MDT, one iteration per action *)

mnt == MNT_Tables[tables]
mdt == MDT_Tables[tables]

AsmIdle ==
    /\ pc = "idle" /\ line_no = 0 /\ started = FALSE /\ symtab = <<>> /\ littab = <<>>
    /\ pooltab = <<>> /\ locctr = 0 /\ start_address = 0 /\ intermediate_records = <<>>
    /\ raw_line = <<>>

\* main() has loaded one pair of tables; expand_intermediate has opened the files
MacroInit ==
    /\ AsmIdle
    /\ LoadIdle
    /\ RWIdle
    /\ tables \in DOMAIN MNT_Tables
    /\ mpc = "read"
    /\ n_read = 0
    /\ outf = <<>>
    /\ prefix = <<>>
    /\ macro_name = <<>>
    /\ actual_args = <<>>
    /\ idx = 0
    /\ call_line = <<>>
    /\ call_out = 0

\* mdt_text.strip().upper() == "MEND"
is_mend(mdt_text) == At(upper, strip(mdt_text)) = W_MEND

\* first_token = mdt_text.strip().split(None,1)[0] if mdt_text.strip() else ""
first_token(mdt_text) ==
    At(LAMBDA t : IF t # <<>> THEN split_ws(t)[1] ELSE <<>>, strip(mdt_text))

\* Variant of the header test that takes no line for the header.
is_header_never(mdt_text, name) == FALSE

\* first_token == macro_name
is_header(mdt_text, name) == first_token(mdt_text) = name

\* Variant of the copy that writes nothing for a blank line.
CopyLine_skips_blank(line, call) ==
    /\ call.macro_name = None
    /\ outf' = IF strip(line) = <<>> THEN outf ELSE Append(outf, line)
    /\ call_line' = line
    /\ n_read' = n_read + 1
    /\ UNCHANGED <<mpc, tables, prefix, macro_name, actual_args, idx, call_out>>
    /\ UNCHANGED asm_vars
    /\ UNCHANGED load_vars
    /\ UNCHANGED rw_vars

\* no macro call: the line is written as it is
CopyLine(line, call) ==
    /\ call.macro_name = None
    /\ outf' = Append(outf, line)
    /\ call_line' = line
    /\ n_read' = n_read + 1
    /\ UNCHANGED <<mpc, tables, prefix, macro_name, actual_args, idx, call_out>>
    /\ UNCHANGED asm_vars
    /\ UNCHANGED load_vars
    /\ UNCHANGED rw_vars

ReadCopy ==
    \E raw \in InputLines :
        /\ mpc = "read"
        /\ n_read < MaxInput
        /\ CopyLine(rstrip_nl(raw), parse_macro_call_line(rstrip_nl(raw), mnt))

\* macro call found: get the MDT start index and enter the while loop
CallLine(line, call) ==
    /\ call.macro_name # None
    /\ prefix' = call.prefix
    /\ macro_name' = call.macro_name[1]
    /\ actual_args' = call.args
    /\ idx' = mnt[call.macro_name[1]][1]
    /\ call_line' = line
    /\ call_out' = Len(outf)
    /\ n_read' = n_read + 1
    /\ mpc' = "walk"
    /\ UNCHANGED <<tables, outf>>
    /\ UNCHANGED asm_vars
    /\ UNCHANGED load_vars
    /\ UNCHANGED rw_vars

ReadCall ==
    \E raw \in InputLines :
        /\ mpc = "read"
        /\ n_read < MaxInput
        /\ CallLine(rstrip_nl(raw), parse_macro_call_line(rstrip_nl(raw), mnt))

\* Variant of the break on a missing index that takes back the lines the
\* invocation has written.
WalkMissing_discards ==
    /\ mpc = "walk"
    /\ idx \notin DOMAIN mdt
    /\ mpc' = "read"
    /\ outf' = SubSeq(outf, 1, call_out)
    /\ UNCHANGED <<tables, n_read, prefix, macro_name, actual_args, idx, call_line, call_out>>
    /\ UNCHANGED asm_vars
    /\ UNCHANGED load_vars
    /\ UNCHANGED rw_vars

\* if idx not in mdt: break
WalkMissing ==
    /\ mpc = "walk"
    /\ idx \notin DOMAIN mdt
    /\ mpc' = "read"
    /\ UNCHANGED <<tables, n_read, outf, prefix, macro_name, actual_args, idx, call_line,
                   call_out>>
    /\ UNCHANGED asm_vars
    /\ UNCHANGED load_vars
    /\ UNCHANGED rw_vars

\* stop if MEND
WalkMend ==
    /\ mpc = "walk"
    /\ idx \in DOMAIN mdt
    /\ is_mend(rstrip(mdt[idx]))
    /\ mpc' = "read"
    /\ UNCHANGED <<tables, n_read, outf, prefix, macro_name, actual_args, idx, call_line,
                   call_out>>
    /\ UNCHANGED asm_vars
    /\ UNCHANGED load_vars
    /\ UNCHANGED rw_vars

\* Variant of the header branch that goes round the loop without idx += 1.
WalkHeader_stays ==
    /\ mpc = "walk"
    /\ idx \in DOMAIN mdt
    /\ ~is_mend(rstrip(mdt[idx]))
    /\ is_header(rstrip(mdt[idx]), macro_name)
    /\ UNCHANGED <<mpc, tables, n_read, outf, prefix, macro_name, actual_args, idx, call_line,
                   call_out>>
    /\ UNCHANGED asm_vars
    /\ UNCHANGED load_vars
    /\ UNCHANGED rw_vars

\* header line: skip output
WalkHeader ==
    /\ mpc = "walk"
    /\ idx \in DOMAIN mdt
    /\ ~is_mend(rstrip(mdt[idx]))
    /\ is_header(rstrip(mdt[idx]), macro_name)
    /\ idx' = idx + 1
    /\ UNCHANGED <<mpc, tables, n_read, outf, prefix, macro_name, actual_args, call_line,
                   call_out>>
    /\ UNCHANGED asm_vars
    /\ UNCHANGED load_vars
    /\ UNCHANGED rw_vars

\* body line: substitute and write with the prefix
WalkEmit ==
    /\ mpc = "walk"
    /\ idx \in DOMAIN mdt
    /\ ~is_mend(rstrip(mdt[idx]))
    /\ ~is_header(rstrip(mdt[idx]), macro_name)
    /\ outf' = Append(outf, prefix \o substitute_params_in_mdt_line(rstrip(mdt[idx]), actual_args))
    /\ idx' = idx + 1
    /\ UNCHANGED <<mpc, tables, n_read, prefix, macro_name, actual_args, call_line, call_out>>
    /\ UNCHANGED asm_vars
    /\ UNCHANGED load_vars
    /\ UNCHANGED rw_vars

\* the input file is exhausted
EndOfInput ==
    /\ mpc = "read"
    /\ mpc' = "done"
    /\ UNCHANGED <<tables, n_read, outf, prefix, macro_name, actual_args, idx, call_line,
                   call_out>>
    /\ UNCHANGED asm_vars
    /\ UNCHANGED load_vars
    /\ UNCHANGED rw_vars

MacroNext ==
    \/ ReadCopy
    \/ ReadCall
    \/ WalkMissing
    \/ WalkMend
    \/ WalkHeader
    \/ WalkEmit
    \/ EndOfInput

SpecMacro == MacroInit /\ [][MacroNext]_vars

-----------------------------------------------------------------------------
(* macro_pass2: what the claims speak of *)

\* the positions at which a whitespace-delimited token of s starts
TokenStarts(s) == {i \in 1..Len(s) : s[i] \notin WS /\ (i = 1 \/ s[i - 1] \in WS)}
\* the token of s that starts at position i
TokenAt(s, i) ==
    SubSeq(s, i, Min({j \in i..Len(s) : j = Len(s) \/ s[j + 1] \in WS}))
\* the start of the first token of s that is a name of the MNT
MacroTokenStart(s) == Min({i \in TokenStarts(s) : TokenAt(s, i) \in DOMAIN mnt})

\* C8 (prefix preservation): during an invocation, the prefix is the text of the
\* call line before its first token that equals an MNT name, the argument list
\* is taken from the text after that token, and every line the invocation has
\* emitted starts with that prefix.
C8_PrefixPreserved ==
    mpc = "walk" =>
        LET at == MacroTokenStart(call_line)
        IN  /\ prefix = SubSeq(call_line, 1, at - 1)
            /\ macro_name = TokenAt(call_line, at)
            /\ actual_args =
                  call_args(strip(SubSeq(call_line, at + Len(macro_name), Len(call_line))))
            /\ \A k \in (call_out + 1)..Len(outf) :
                  SubSeq(outf[k], 1, at - 1) = SubSeq(call_line, 1, at - 1)

\* the MDT text at index i is an end-of-body marker
IsMendText(i) == upper(strip(mdt[i])) = W_MEND
\* the greatest index of the MDT
LastIndex == CHOOSE m \in DOMAIN mdt : \A k \in DOMAIN mdt : k <= m
\* where a walk from s stops: the first index that is an end-of-body marker, or,
\* should the MDT lack an index before that, the first index it lacks
WalkStop(s) ==
    Min({i \in s..(LastIndex + 1) : i \notin DOMAIN mdt \/ IsMendText(i)})
\* the MDT holds every index from s up to an end-of-body marker
ReachesMend(s) == WalkStop(s) \in DOMAIN mdt
\* the MDT text at index i starts with the token name
StartsWithToken(i, name) == split_ws(mdt[i]) # <<>> /\ split_ws(mdt[i])[1] = name

RECURSIVE ExpectedBody(_, _, _, _, _)
\* the substituted lines at the indices i .. e-1 that do not start with the macro
\* name, in index order, each behind the prefix
ExpectedBody(i, e, name, pre, args) ==
    IF i >= e THEN <<>>
    ELSE (IF StartsWithToken(i, name) THEN <<>>
          ELSE <<pre \o substitute_params_in_mdt_line(rstrip(mdt[i]), args)>>)
         \o ExpectedBody(i + 1, e, name, pre, args)

\* C9: the lines an invocation of macro M with start index s has emitted are
\* exactly the substituted MDT lines at s, s+1, ... in index order, up to but
\* excluding the first index whose trimmed, uppercased text is MEND, without the
\* lines of that span whose first token is M; the walk ends on that MEND line
\* (or on the first index the MDT lacks, when that comes first), and neither the
\* MEND line nor a header line is emitted.
C9_BodySpan ==
    [][(mpc = "walk" /\ mpc' = "read") =>
        /\ idx = WalkStop(mnt[macro_name][1])
        /\ SubSeq(outf', call_out + 1, Len(outf')) =
              ExpectedBody(mnt[macro_name][1], WalkStop(mnt[macro_name][1]),
                           macro_name, prefix, actual_args)]_vars

\* an invocation of INCR under the second tables has ended on its MEND line,
\* after two suppressed lines and three emitted ones
C9_Witness ==
    /\ mpc = "read"
    /\ tables = 2
    /\ macro_name = W_INCR
    /\ ReachesMend(mnt[W_INCR][1])
    /\ idx = WalkStop(mnt[W_INCR][1])
    /\ Len(outf) = call_out + 3

\* the argument a placeholder index stands for
ArgOrEmpty(i, args) == IF i \in 1..Len(args) THEN args[i] ELSE <<>>

RECURSIVE ExpectedText(_, _)
\* a template with every placeholder replaced
ExpectedText(parts, args) ==
    IF parts = <<>> THEN <<>>
    ELSE (IF Head(parts).kind = "text" THEN Head(parts).chars
          ELSE ArgOrEmpty(Head(parts).index, args))
         \o ExpectedText(Tail(parts), args)

HasPlaceholder(parts) == \E k \in 1..Len(parts) : parts[k].kind = "param"

\* C10 (substitution exactness): a body line with placeholders is emitted with
\* each placeholder (P,i), 1 <= i <= len(actual_args), replaced by
\* actual_args[i-1] and each other placeholder replaced by empty text, the rest
\* of the line as it is; fewer or more arguments than placeholders are no error.
C10_SubstitutionExact ==
    [][(mpc = "walk" /\ Len(outf') = Len(outf) + 1 /\ idx \in DOMAIN mdt
          /\ HasPlaceholder(MDT_Templates[tables][idx])) =>
        outf'[Len(outf')] = prefix \o ExpectedText(MDT_Templates[tables][idx], actual_args)]_vars

\* with one actual argument, "ADD (P,2)(P,1),(P,3)" was emitted as "ADD X,"
\* behind the prefix "LOOP "
C10_Witness ==
    /\ Len(actual_args) = 1
    /\ \E k \in 1..Len(outf) : outf[k] = <<"L", "O", "O", "P", " ", "A", "D", "D", " ", "X", ",">>

\* the comma-separated fields of a text, each trimmed, in their given order
Fields(rest) == strip_each(split_on(rest, ","))
\* the text of the call line after the macro-name token that ends the prefix
AfterName == strip(SubSeq(call_line, Len(prefix) + Len(macro_name) + 1, Len(call_line)))

\* C11: the actual arguments of an invocation are the comma-separated fields of
\* the text after the macro-name token, trimmed and in their given order:
\* placeholder (P,i) stands for the i-th field, and for empty text when the call
\* has fewer than i fields.
C11_ArgsArePositionalFields ==
    mpc = "walk" =>
        \A i \in 1..(Len(Fields(AfterName)) + 1) :
            ArgOrEmpty(i, actual_args) = ArgOrEmpty(i, Fields(AfterName))

-----------------------------------------------------------------------------
(* AssemblerPass1: the pool, the records and the flush *)

\* C12: at most one pool is open (the pool table holds at most one index); when
\* a pool is open at the 0-based index p then p < len(littab) and exactly the
\* literals at an index >= p have no address; when no pool is open every literal
\* has an address.
C12_OnePoolOpen ==
    /\ Len(pooltab) <= 1
    /\ pooltab # <<>> =>
          /\ pooltab[1] < Len(littab)
          /\ \A i \in 1..Len(littab) : (littab[i].address = None) <=> (i - 1 >= pooltab[1])
    /\ pooltab = <<>> => \A i \in 1..Len(littab) : littab[i].address # None

\* a second pool is open at index 1, behind a closed pool of one literal
C12_Witness ==
    /\ pooltab = <<1>>
    /\ Len(littab) = 2
    /\ littab[1].address # None
    /\ littab[2].address = None

\* the branches of lines that reserve no storage
NoSpaceBranches == {"END", "LTORG", "ORIGIN", "EQU"}

\* C13 as the specification states it: the records of blank/comment lines and of
\* END, LTORG, ORIGIN and EQU lines carry no address, every other record does.
C13_DirectivesCarryNoAddress ==
    \A k \in 1..Len(intermediate_records) :
        (intermediate_records[k][1] = None) <=>
            (Branch(RecordParse(intermediate_records[k])) \in NoSpaceBranches \cup {"blank"})

\* C13: only the record of a blank/comment line carries no address; the record
\* of every other line, END, LTORG, ORIGIN and EQU lines included, carries the
\* location counter at that line (for a START line, the value START sets).
C13_RecordsCarryCounter ==
    [][LineStep =>
        intermediate_records'[Len(intermediate_records')][1] =
            (IF StepBranch = "blank" THEN None
             ELSE IF StepBranch = "START" THEN Some(locctr')
             ELSE Some(locctr))]_vars

\* the record of an END line carries the address 100
C13_Witness ==
    \E k \in 1..Len(intermediate_records) :
        /\ Branch(RecordParse(intermediate_records[k])) = "END"
        /\ intermediate_records[k][1] = Some(100)

C15_IdempotentReflush ==
    [][FlushStep =>
        /\ Pending(littab) = {} =>
              /\ locctr' = locctr
              /\ littab' = littab
              /\ pooltab' = pooltab
        /\ Pending(littab') = {}
        /\ pooltab' = <<>>]_vars

\* an LTORG line right after an LTORG line that had addressed a literal
C15_Witness ==
    /\ line_no >= 3
    /\ intermediate_records[line_no - 1][2] = W_LTORG
    /\ intermediate_records[line_no][2] = W_LTORG
    /\ littab # <<>>
    /\ locctr = littab[Len(littab)].address[1] + 1

-----------------------------------------------------------------------------
(* macro_pass2: truncated bodies, copied lines and the examples *)

\* a token of the line s is a name of the MNT
HasMacroToken(s) == \E i \in TokenStarts(s) : TokenAt(s, i) \in DOMAIN mnt

\* the invocation taken last ran into an index the MDT lacks
Truncated ==
    /\ macro_name \in DOMAIN mnt
    /\ idx = WalkStop(mnt[macro_name][1])
    /\ idx \notin DOMAIN mdt

\* C16: when the walk of an invocation reaches an index the MDT lacks before a
\* MEND line, the expansion stops there without an error: the loop goes back to
\* reading, the lines written so far stay in the output and nothing is added;
\* the next input line is processed as any other (copied, or expanded from its
\* macro's start index).
C16_MissingIndexStopsSilently ==
    [][/\ (mpc = "walk" /\ idx \notin DOMAIN mdt) =>
            /\ mpc' = "read"
            /\ outf' = outf
            /\ n_read' = n_read
       /\ (mpc = "read" /\ Truncated /\ n_read' = n_read + 1) =>
            IF HasMacroToken(call_line')
            THEN mpc' = "walk" /\ outf' = outf /\ idx' = mnt[macro_name'][1]
            ELSE mpc' = "read" /\ outf' = Append(outf, call_line')]_vars

\* DECR Y was expanded up to the missing index 10, and the next line was copied
C16_Witness ==
    /\ tables = 2
    /\ mpc = "read"
    /\ n_read = 2
    /\ Truncated
    /\ outf = <<<<"S", "U", "B", " ", "Y">>, <<"D", "C", " ">>, <<"M", "O", "V", "E", "R", " ", "A", "R", "E", "G", ",", " ", "=", "5">>>>

\* C17: an input line none of whose tokens is a name of the MNT is written to
\* the output as it is; the output only grows at its end, one line per step, and
\* a step writes only for the input line taken last (the copied line itself, or
\* a body line of its expansion), so that the outputs of the input lines stand
\* in input order.
C17_CopiedUnchangedInOrder ==
    [][/\ (n_read' = n_read + 1 /\ ~HasMacroToken(call_line')) =>
            /\ mpc = "read" /\ mpc' = "read"
            /\ outf' = Append(outf, call_line')
       /\ n_read' # n_read =>
            /\ mpc = "read"
            /\ n_read' = n_read + 1
            /\ call_line' \in {rstrip_nl(raw) : raw \in InputLines}
       /\ outf' = outf \/ (Len(outf') = Len(outf) + 1 /\ SubSeq(outf', 1, Len(outf)) = outf)
       /\ outf' # outf =>
            \/ n_read' = n_read + 1 /\ outf'[Len(outf')] = call_line'
            \/ mpc = "walk" /\ n_read' = n_read /\ call_line' = call_line]_vars

\* a copied line, the expansion of a call and a copied blank line, in that order
C17_Witness ==
    /\ tables = 1
    /\ n_read = 3
    /\ outf = <<<<"M", "O", "V", "E", "R", " ", "A", "R", "E", "G", ",", " ", "=", "5">>, <<" ", " ", "A", "D", "D", " ", "X", ",", "5">>, <<>>>>

-----------------------------------------------------------------------------
(* macro_pass2: read_mnt and read_mdt, one row of the file per action *)

\* the number of rows of a table file
MaxRows == 3

\* the rows an MNT file may hold, each with its line break
MntRows == {
    <<"I", "N", "C", "R", " ", "1", "0", " ", "2", "\n">>,
    <<"D", "E", "C", "R", " ", "8", " ", "1", "\n">>,
    <<"I", "N", "C", "R", " ", "x", " ", "2", "\n">>,
    <<"D", "E", "C", "R", " ", "8", " ", "x", "\n">>,
    <<"N", "a", "m", "e", " ", "M", "D", "T", "_", "I", "n", "d", "e", "x", " ", "P", "a", "r", "a", "m", "s", "\n">>,
    <<"\n">>,
    <<"I", "N", "C", "R", "\n">>,
    <<" ", "D", "E", "C", "R", " ", "9", "\n">>
}

\* the rows an MDT file may hold, each with its line break
MdtRows == {
    <<"1", "0", " ", "I", "N", "C", "R", " ", "(", "P", ",", "1", ")", "\n">>,
    <<"1", "1", " ", "M", "E", "N", "D", "\n">>,
    <<"x", " ", "A", "D", "D", "\n">>,
    <<"1", "2", "\n">>,
    <<"M", "D", "T", "_", "I", "N", "D", "E", "X", "\t", "T", "E", "X", "T", "\n">>,
    <<" ", " ", "\n">>,
    <<"1", "0", " ", " ", "A", "D", "D", " ", " ", "X", " ", "\n">>
}

\* str.startswith
startswith(s, t) == Len(s) >= Len(t) /\ SubSeq(s, 1, Len(t)) = t

\* t in s
contains(s, t) == find(s, t) >= 0

\* str.split(None, 1): the first token, and the rest from its first
\* non-whitespace character on (trailing whitespace kept) when there is one
split_first(s) ==
    LET t == lstrip(s)
        ws == {i \in 1..Len(t) : t[i] \in WS}
        n == IF ws = {} THEN Len(t) + 1 ELSE Min(ws)
        rest == lstrip(SubSeq(t, n, Len(t)))
    IN  IF t = <<>> THEN <<>>
        ELSE IF rest = <<>> THEN <<SubSeq(t, 1, n - 1)>>
        ELSE <<SubSeq(t, 1, n - 1), rest>>

\* d[k] = v
dict_set(d, k, v) == [j \in DOMAIN d \cup {k} |-> IF j = k THEN v ELSE d[j]]

\* num_params of an MNT row: 0 without a third token or when it is no integer
row_num_params(parts) ==
    IF Len(parts) >= 3 /\ int_ok(parts[3]) THEN to_int(parts[3]) ELSE 0

\* Variant of the row handling that skips a row whose third token is no integer.
mnt_parts_strict(m, parts) ==
    IF Len(parts) < 2 THEN m
    ELSE IF ~int_ok(parts[2]) THEN m
    ELSE IF Len(parts) >= 3 /\ ~int_ok(parts[3]) THEN m
    ELSE dict_set(m, parts[1], <<to_int(parts[2]), row_num_params(parts)>>)

\* the body of read_mnt's loop from parts = line.split() on
mnt_parts(m, parts) ==
    IF Len(parts) < 2 THEN m
    ELSE IF ~int_ok(parts[2]) THEN m
    ELSE dict_set(m, parts[1], <<to_int(parts[2]), row_num_params(parts)>>)

\* the body of read_mnt's loop for the stripped line
mnt_line(m, line) ==
    IF line = <<>> THEN m
    ELSE IF startswith(upper(line), <<"N", "A", "M", "E">>) /\ contains(upper(line), <<"M", "D", "T">>)
    THEN m
    ELSE mnt_parts(m, split_ws(line))

\* one iteration of read_mnt's loop
read_mnt_row(m, row) == mnt_line(m, strip(row))

\* the body of read_mdt's loop from parts = line.split(None, 1) on
mdt_parts(m, parts) ==
    IF Len(parts) = 1
    THEN IF int_ok(parts[1]) THEN dict_set(m, to_int(parts[1]), <<>>) ELSE m
    ELSE IF int_ok(parts[1]) THEN dict_set(m, to_int(parts[1]), parts[2]) ELSE m

\* the body of read_mdt's loop for the line without its line break
mdt_line(m, line) ==
    IF strip(line) = <<>> THEN m
    ELSE IF startswith(upper(line), <<"M", "D", "T", "_", "I", "N", "D", "E", "X">>) THEN m
    ELSE mdt_parts(m, split_first(line))

\* one iteration of read_mdt's loop
read_mdt_row(m, row) == mdt_line(m, rstrip_nl(row))

\* main() calls read_mnt
LoadInit ==
    /\ AsmIdle
    /\ MacroIdle
    /\ RWIdle
    /\ lpc = "mnt"
    /\ n_rows = 0
    /\ load_line = <<>>
    /\ mnt_read = EmptyDict
    /\ mdt_read = EmptyDict

MntRow(row) ==
    /\ mnt_read' = read_mnt_row(mnt_read, row)
    /\ load_line' = row
    /\ n_rows' = n_rows + 1
    /\ UNCHANGED <<lpc, mdt_read>>
    /\ UNCHANGED <<asm_vars, macro_vars, rw_vars>>

\* for line in f (read_mnt)
ReadMntRow == \E row \in MntRows : lpc = "mnt" /\ n_rows < MaxRows /\ MntRow(row)

\* read_mnt returns; main() calls read_mdt
MntEnd ==
    /\ lpc = "mnt"
    /\ lpc' = "mdt"
    /\ n_rows' = 0
    /\ load_line' = <<>>
    /\ UNCHANGED <<mnt_read, mdt_read>>
    /\ UNCHANGED <<asm_vars, macro_vars, rw_vars>>

MdtRow(row) ==
    /\ mdt_read' = read_mdt_row(mdt_read, row)
    /\ load_line' = row
    /\ n_rows' = n_rows + 1
    /\ UNCHANGED <<lpc, mnt_read>>
    /\ UNCHANGED <<asm_vars, macro_vars, rw_vars>>

\* for line in f (read_mdt)
ReadMdtRow == \E row \in MdtRows : lpc = "mdt" /\ n_rows < MaxRows /\ MdtRow(row)

\* read_mdt returns
MdtEnd ==
    /\ lpc = "mdt"
    /\ lpc' = "loaded"
    /\ UNCHANGED <<n_rows, load_line, mnt_read, mdt_read>>
    /\ UNCHANGED <<asm_vars, macro_vars, rw_vars>>

LoadNext ==
    \/ ReadMntRow
    \/ MntEnd
    \/ ReadMdtRow
    \/ MdtEnd

SpecLoad == LoadInit /\ [][LoadNext]_vars

\* a step that reads one row of the MNT file, of the MDT file
MntRowStep == lpc = "mnt" /\ n_rows' = n_rows + 1
MdtRowStep == lpc = "mdt" /\ n_rows' = n_rows + 1

\* the tokens of the row read in this step
RowTokens == split_ws(load_line')
\* the row is the header line of an MNT file
MntHeaderRow ==
    /\ startswith(upper(strip(load_line')), <<"N", "A", "M", "E">>)
    /\ contains(upper(load_line'), <<"M", "D", "T">>)
\* the text of an MDT row: what follows the index, up to the line break
RowText == IF Len(split_first(rstrip_nl(load_line'))) = 2
           THEN split_first(rstrip_nl(load_line'))[2] ELSE <<>>
\* the parameter count of an MNT row: 0 when it is absent or no integer
RowParams == IF Len(RowTokens) >= 3 /\ int_ok(RowTokens[3]) THEN to_int(RowTokens[3]) ELSE 0

\* C18 as the specification states it: an MNT row whose index or whose
\* parameter count is no integer, and an MDT row whose index is no integer, add
\* no entry; loading goes on.
C18_MalformedRowsSkipped ==
    [][/\ (MntRowStep /\ Len(RowTokens) >= 2
             /\ (~int_ok(RowTokens[2]) \/ (Len(RowTokens) >= 3 /\ ~int_ok(RowTokens[3])))) =>
            mnt_read' = mnt_read /\ lpc' = "mnt"
       /\ (MdtRowStep /\ RowTokens # <<>> /\ ~int_ok(RowTokens[1])) =>
            mdt_read' = mdt_read /\ lpc' = "mdt"]_vars

\* C18: an MNT row whose index is no integer and an MDT row whose index is no
\* integer add no entry; an MNT row with an integer index is loaded whatever its
\* parameter count is: a count that is absent or no integer is taken as 0. A
\* well-formed row sets its entry and keeps the entries loaded before it, and
\* loading goes on after every row.
C18_RowsLoadedOrSkipped ==
    [][/\ MntRowStep =>
            /\ lpc' = "mnt"
            /\ mnt_read' =
                 IF Len(RowTokens) >= 2 /\ int_ok(RowTokens[2]) /\ ~MntHeaderRow
                 THEN dict_set(mnt_read, RowTokens[1], <<to_int(RowTokens[2]), RowParams>>)
                 ELSE mnt_read
       /\ MdtRowStep =>
            /\ lpc' = "mdt"
            /\ mdt_read' =
                 IF RowTokens # <<>> /\ int_ok(RowTokens[1])
                 THEN dict_set(mdt_read, to_int(RowTokens[1]), RowText)
                 ELSE mdt_read]_vars

\* the MNT holds DECR with the count 0, as the row 'DECR 8 x' gives it, and
\* the MDT holds the rows 10 and 11 after three rows were read, one of them
\* without effect
C18_Witness ==
    /\ lpc = "mdt"
    /\ n_rows = 3
    /\ DOMAIN mnt_read = {W_DECR}
    /\ mnt_read[W_DECR] = <<8, 0>>
    /\ load_line = <<"1", "1", " ", "M", "E", "N", "D", "\n">>
    /\ DOMAIN mdt_read = {10, 11}
    /\ mdt_read[10] = <<"I", "N", "C", "R", " ", "(", "P", ",", "1", ")">>

-----------------------------------------------------------------------------
(* The examples of the specification as runs *)

\* the source of Example 1, line by line as the records keep it
Example1 == <<
    <<"S", "T", "A", "R", "T", " ", "1", "0", "0">>,
    <<"A", " ", "M", "O", "V", "E", "R", " ", "A", "R", "E", "G", ",", " ", "=", "5">>,
    <<"L", "T", "O", "R", "G">>,
    <<"E", "N", "D">>
>>

\* the loop has taken exactly the first n lines of Example 1
TakenOfExample1(n) ==
    /\ line_no = n
    /\ \A k \in 1..n : intermediate_records[k][2] = Example1[k]

\* C19 (Example 1): after START 100 and A MOVER AREG, =5 the symbol A is defined
\* at 100 and the literal =5 is in the table without an address; LTORG gives it
\* the address 101 and leaves the counter at 102; END leaves it at 102.
C19_Example1 ==
    /\ (pc = "run" /\ TakenOfExample1(2)) =>
          /\ InSymtab(symtab, <<"A">>)
          /\ symtab[SymIndex(symtab, <<"A">>)].address = Some(100)
          /\ symtab[SymIndex(symtab, <<"A">>)].defined
          /\ Len(littab) = 1
          /\ littab[1].literal = <<"=", "5">>
          /\ littab[1].address = None
          /\ locctr = 101
    /\ (pc = "run" /\ TakenOfExample1(3)) =>
          /\ symtab[SymIndex(symtab, <<"A">>)].address = Some(100)
          /\ Len(littab) = 1
          /\ littab[1].address = Some(101)
          /\ locctr = 102
    /\ TakenOfExample1(4) =>
          /\ symtab[SymIndex(symtab, <<"A">>)].address = Some(100)
          /\ littab[1].address = Some(101)
          /\ pooltab = <<>>
          /\ locctr = 102

\* the pass over Example 1 is complete
C19_Witness == TakenOfExample1(4) /\ pc = "done"

\* C20 (Example 2): with MNT INCR -> (10, 2) and the MDT 10 -> INCR (P,1),(P,2),
\* 11 -> ADD (P,1),(P,2), 12 -> MEND, the one input line '  INCR X,5' gives
\* exactly one output line, '  ADD X,5'.
C20_Example2 ==
    (/\ tables = 1
     /\ mnt = (W_INCR :> <<10, 2>>)
     /\ mdt = (10 :> <<"I", "N", "C", "R", " ", "(", "P", ",", "1", ")", ",", "(", "P", ",", "2", ")">> @@ 11 :> <<"A", "D", "D", " ", "(", "P", ",", "1", ")", ",", "(", "P", ",", "2", ")">> @@ 12 :> W_MEND)
     /\ n_read = 1
     /\ call_line = <<" ", " ", "I", "N", "C", "R", " ", "X", ",", "5">>
     /\ mpc \in {"read", "done"})
    => outf = <<<<" ", " ", "A", "D", "D", " ", "X", ",", "5">>>>

\* the expansion of Example 2 is complete
C20_Witness ==
    /\ tables = 1
    /\ n_read = 1
    /\ call_line = <<" ", " ", "I", "N", "C", "R", " ", "X", ",", "5">>
    /\ mpc = "done"
    /\ idx = 12

-----------------------------------------------------------------------------
(* AssemblerPass1: forward references, the start, the counter and the frame of
   a line *)

\* C21: every line number in a symbol's forward-reference list is the number of
\* a line taken so far that has the symbol among its operands, no line up to and
\* including that line carries the symbol as its label (the symbol was still
\* undefined), and so no line that defines the symbol adds an entry.
C21_ForwardReferencesAreReferences ==
    \A i \in 1..Len(symtab) :
        \A j \in 1..Len(symtab[i].forward_references) :
            /\ symtab[i].forward_references[j] \in 1..Len(intermediate_records)
            /\ symtab[i].name \in
                  SymbolOperands(intermediate_records[symtab[i].forward_references[j]])
            /\ \A k \in 1..symtab[i].forward_references[j] :
                  RecordLabel(intermediate_records[k]) # Some(symtab[i].name)

\* C22: the pass leaves NOT_STARTED once, on the first line that is not blank
\* (a START line, or any other line with the counter at 0), and a START line
\* taken when the pass is RUNNING leaves the location counter as it is.
C22_StartSetsCounterOnce ==
    [][LineStep =>
        /\ started' # started => (~started /\ StepBranch # "blank")
        /\ (~started /\ StepBranch \notin {"blank", "START"}) => locctr = 0
        /\ (started /\ StepBranch = "START") => locctr' = locctr]_vars

\* C23: when process() has returned, no pool is open and every literal of the
\* table has an address, whether the source had an END line or not, and also
\* for literals used after the END line.
C23_AllLiteralsAddressedAtReturn ==
    pc = "done" => (pooltab = <<>> /\ \A i \in 1..Len(littab) : littab[i].address # None)

\* process() has returned for a source that used a literal after its END line
C23_Witness ==
    /\ pc = "done"
    /\ line_no = 2
    /\ intermediate_records[1][2] = W_END
    /\ Len(littab) = 1
    /\ littab[1].address = Some(1)

\* the operands of a record's line that the operand scan takes as literals
LiteralOperands(rec) ==
    IF Branch(RecordParse(rec)) = "IS"
    THEN {op \in Elements(operand_list(RecordParse(rec).operands)) :
             ~is_register(op) /\ is_literal(op)}
    ELSE {}

\* the texts a literal table holds
LiteralTexts(lt) == {lt[i].literal : i \in 1..Len(lt)}

\* C24: no two entries of the literal table have the same text; an instruction
\* never changes an entry the table holds, and one whose literals are all in the
\* table already, be it in a pool flushed earlier, adds no entry and opens no
\* pool.
C24_LiteralsDeduplicated ==
    [][/\ \A i, j \in 1..Len(littab') : littab'[i].literal = littab'[j].literal => i = j
       /\ (LineStep /\ StepBranch = "IS") =>
            /\ SubSeq(littab', 1, Len(littab)) = littab
            /\ LiteralTexts(littab') =
                  LiteralTexts(littab)
                      \cup LiteralOperands(intermediate_records'[Len(intermediate_records')])
            /\ LiteralOperands(intermediate_records'[Len(intermediate_records')])
                   \subseteq LiteralTexts(littab) =>
                  (littab' = littab /\ pooltab' = pooltab)]_vars

\* the literal =5 was used, addressed by LTORG and used again: one entry, no
\* pool open
C24_Witness ==
    /\ line_no = 3
    /\ intermediate_records[2][2] = W_LTORG
    /\ intermediate_records[3][2] = intermediate_records[1][2]
    /\ Len(littab) = 1
    /\ littab[1].address # None
    /\ pooltab = <<>>

\* the operand text of the line taken in this step (none when it has none)
StepOperands == RecordParse(intermediate_records'[Len(intermediate_records')]).operands

\* the value the operand of an ORIGIN line resolves to with the symbols of tab:
\* an integer literal, or a symbol with an optional +/- offset whose base symbol
\* has an address; none when it does not resolve
OriginValue(tab, operands) ==
    IF ~Truthy(operands) THEN None
    ELSE IF evaluate_expression(tab, operands[1]) # None
    THEN evaluate_expression(tab, operands[1])
    ELSE IF int_ok(operands[1]) THEN Some(to_int(operands[1]))
    ELSE None

\* C25: an ORIGIN line whose operand resolves puts the location counter to the
\* resolved value; one whose operand does not resolve leaves the counter as it
\* is, and the pass goes on; in both cases a label of the line is defined at the
\* counter before the jump.
C25_OriginSetsOrKeepsCounter ==
    [][(LineStep /\ StepBranch = "ORIGIN") =>
        /\ OriginValue(symtab', StepOperands) # None =>
              locctr' = OriginValue(symtab', StepOperands)[1]
        /\ OriginValue(symtab', StepOperands) = None => locctr' = locctr
        /\ Truthy(StepLabel) =>
              /\ InSymtab(symtab', StepLabel[1])
              /\ symtab'[SymIndex(symtab', StepLabel[1])].address = Some(locctr)
              /\ symtab'[SymIndex(symtab', StepLabel[1])].defined
        /\ pc' = "run"
        /\ littab' = littab /\ pooltab' = pooltab]_vars

\* ORIGIN A+1 did not resolve and left the counter at 0; after DC 1 the line
\* L ORIGIN 7 defined L at 1 and put the counter to 7
C25_Witness ==
    /\ line_no = 3
    /\ intermediate_records[1][2] = <<"O", "R", "I", "G", "I", "N", " ", "A", "+", "1">>
    /\ intermediate_records[2] = <<Some(0), <<"D", "C", " ", "1">>>>
    /\ intermediate_records[3][2] = <<"L", " ", "O", "R", "I", "G", "I", "N", " ", "7">>
    /\ symtab[SymIndex(symtab, <<"L">>)].address = Some(1)
    /\ locctr = 7

\* the symbol table tab2 holds the symbols of tab1 as they were, and beyond them
\* at most the symbol of the label (none when the line has no label)
OnlyLabelTouched(tab1, tab2, label) ==
    /\ Len(tab2) >= Len(tab1)
    /\ \A i \in 1..Len(tab1) :
          \/ tab2[i] = tab1[i]
          \/ label = Some(tab1[i].name)
               /\ tab2[i].name = tab1[i].name
               /\ tab2[i].forward_references = tab1[i].forward_references
    /\ \A i \in (Len(tab1) + 1)..Len(tab2) :
          label = Some(tab2[i].name) /\ tab2[i].forward_references = <<>>

\* C26: a line whose opcode is neither a directive nor an imperative opcode
\* leaves the location counter, the literal table and the pool table as they
\* are; its operands create no symbol and no forward reference (the symbol table
\* changes only by the definition of the line's label); the line is recorded
\* with the counter.
C26_UnknownOpcodeFrame ==
    [][(LineStep /\ StepBranch = "unknown") =>
        /\ locctr' = locctr
        /\ littab' = littab
        /\ pooltab' = pooltab
        /\ OnlyLabelTouched(symtab, symtab', StepLabel)
        /\ intermediate_records' =
              Append(intermediate_records, <<Some(locctr), rstrip(raw_line')>>)]_vars

\* after DC 1 the line B: HLT A was recorded at 1; B is the only symbol
C26_Witness ==
    /\ line_no = 2
    /\ intermediate_records[2] = <<Some(1), <<"B", ":", " ", "H", "L", "T", " ", "A">>>>
    /\ locctr = 1
    /\ Len(symtab) = 1
    /\ symtab[1].name = <<"B">>

\* nothing but whitespace stands before the first ';' or '#' of the line
BlankOrComment(raw) == strip(before_comment(raw)) = <<>>

\* C27: a blank or comment-only line changes nothing but the intermediate
\* stream: counter, symbol table, literal table and pool table stay, the pass
\* stays NOT_STARTED when it was, and exactly one record with address none is
\* appended.
C27_BlankLineFrame ==
    [][(LineStep /\ BlankOrComment(raw_line')) =>
        /\ locctr' = locctr
        /\ symtab' = symtab
        /\ littab' = littab
        /\ pooltab' = pooltab
        /\ start_address' = start_address
        /\ started' = started
        /\ pc' = pc
        /\ intermediate_records' = Append(intermediate_records, <<None, rstrip(raw_line')>>)]_vars

\* a comment line came first: one record without address, the pass not started
C27_Witness ==
    /\ line_no = 1
    /\ ~started
    /\ intermediate_records = <<<<None, <<" ", ";", " ", "c">>>>>>

-----------------------------------------------------------------------------
(* Both drivers, each running its loop without pause *)

\* a run of AssemblerPass1.process or a run of expand_intermediate
DriversInit == AsmInit \/ MacroInit

DriversNext == AsmNext \/ MacroNext

\* the interpreter goes on with the loop it is in as long as there is a step to
\* take
SpecDrivers ==
    DriversInit /\ [][DriversNext]_vars /\ WF_vars(AsmNext) /\ WF_vars(MacroNext)

\* C28: both drivers run to completion: the walk of every invocation comes back
\* to the for loop (at the first MEND line or the first index the MDT lacks),
\* a call of process_literal_pool with an open pool closes one pool, so that the
\* flush loops at END and at the end of the source end, and the pass, or the
\* expansion, ends.
C28_DriversTerminate ==
    /\ [](mpc = "walk" =>
            <>(/\ mpc = "read"
               /\ macro_name \in DOMAIN mnt
               /\ idx = WalkStop(mnt[macro_name][1])))
    /\ [](pooltab # <<>> =>
            Len(process_literal_pool(littab, pooltab, locctr).pooltab) < Len(pooltab))
    /\ [](pc = "run" => <>(pc = "done"))
    /\ [](mpc = "read" => <>(mpc = "done"))

\* a run of expand_intermediate is over whose last invocation walked five
\* indices up to its MEND line
C28_Witness ==
    /\ mpc = "done"
    /\ tables = 2
    /\ macro_name = W_INCR
    /\ idx = mnt[W_INCR][1] + 5
    /\ ReachesMend(mnt[W_INCR][1])

\* the branch of process() that the line of a record took
RecordBranch(rec) == Branch(RecordParse(rec))

\* a DS line whose size is written as a non-negative integer, or left out
DsNonNegative(p) ==
    \/ ~Truthy(p.operands)
    \/ int_ok(p.operands[1]) /\ to_int(p.operands[1]) >= 0

\* the lines taken so far: START at most as the first line that is not blank,
\* no ORIGIN, no DS of a negative size
PlainSource(recs) ==
    \A j \in 1..Len(recs) :
        /\ RecordBranch(recs[j]) # "ORIGIN"
        /\ RecordBranch(recs[j]) = "START" =>
              \A i \in 1..(j - 1) : RecordBranch(recs[i]) = "blank"
        /\ RecordBranch(recs[j]) = "DS" => DsNonNegative(RecordParse(recs[j]))

\* no two literals with an address have the same one
DistinctAddresses(lt) ==
    \A i, j \in 1..Len(lt) :
        (i # j /\ lt[i].address # None /\ lt[j].address # None) =>
            lt[i].address # lt[j].address

\* C29: over a source with START at most as its first non-blank line, without
\* ORIGIN and with DS sizes >= 0, no step of the pass (a line, or the flush at
\* the end of the source) lowers the location counter, and the literals that
\* have an address have pairwise different ones, whatever pools they are in.
C29_CounterMonotone ==
    [][PlainSource(intermediate_records') =>
        /\ locctr' >= locctr
        /\ DistinctAddresses(littab')]_vars

\* START 100, a literal placed by LTORG at 101 and another placed at 103 by the
\* flush at the end of the source
C29_Witness ==
    /\ pc = "done"
    /\ PlainSource(intermediate_records)
    /\ line_no = 4
    /\ intermediate_records[1][2] = <<"S", "T", "A", "R", "T", " ", "1", "0", "0">>
    /\ Len(littab) = 2
    /\ littab[1].address = Some(101)
    /\ littab[2].address = Some(103)
    /\ locctr = 104

-----------------------------------------------------------------------------
(* readers_writers.py: main starts three reader and three writer threads and
   joins them; one action per statement of a thread. A semaphore is its
   counter: acquire waits for a positive counter and takes one off, release
   adds one. sync_problems.py is the same program with the global named
   readerCount. *)

\* threads = [t1, ..., t6], by position
FirstLine(t) == IF t \in Readers THEN "16" ELSE "43"

RWInit ==
    /\ AsmIdle
    /\ MacroIdle
    /\ LoadIdle
    /\ main_pc = "start"
    /\ main_i = 0
    /\ tpc = [t \in Threads |-> "new"]
    /\ tmp = [t \in Threads |-> 0]
    /\ reader_count = 0
    /\ x = 1
    /\ rsem = 1
    /\ wsem = 1

\* main, lines 68-69: for t in threads: t.start()
MainStart ==
    /\ main_pc = "start"
    /\ tpc' = [tpc EXCEPT ![main_i + 1] = FirstLine(main_i + 1)]
    /\ main_i' = IF main_i + 1 = Cardinality(Threads) THEN 0 ELSE main_i + 1
    /\ main_pc' = IF main_i + 1 = Cardinality(Threads) THEN "join" ELSE "start"
    /\ UNCHANGED <<tmp, reader_count, x, rsem, wsem>>
    /\ UNCHANGED <<asm_vars, macro_vars, load_vars>>

\* main, lines 72-73: for t in threads: t.join()
MainJoin ==
    /\ main_pc = "join"
    /\ tpc[main_i + 1] = "done"
    /\ main_i' = main_i + 1
    /\ main_pc' = IF main_i + 1 = Cardinality(Threads) THEN "done" ELSE "join"
    /\ UNCHANGED <<tpc, tmp, reader_count, x, rsem, wsem>>
    /\ UNCHANGED <<asm_vars, macro_vars, load_vars>>

\* Variant of the reader's entry that goes on without taking rsem.
ReaderAcquireRsem_passes ==
    \E t \in Readers :
        /\ tpc[t] = "16"
        /\ tpc' = [tpc EXCEPT ![t] = "17"]
        /\ UNCHANGED <<main_pc, main_i, tmp, reader_count, x, rsem, wsem>>
        /\ UNCHANGED <<asm_vars, macro_vars, load_vars>>

\* reader, line 16: rsem.acquire()
ReaderAcquireRsem ==
    \E t \in Readers :
        /\ tpc[t] = "16"
        /\ rsem > 0
        /\ rsem' = rsem - 1
        /\ tpc' = [tpc EXCEPT ![t] = "17"]
        /\ UNCHANGED <<main_pc, main_i, tmp, reader_count, x, wsem>>
        /\ UNCHANGED <<asm_vars, macro_vars, load_vars>>

\* reader, line 17: x.acquire()
ReaderAcquireX ==
    \E t \in Readers :
        /\ tpc[t] = "17"
        /\ x > 0
        /\ x' = x - 1
        /\ tpc' = [tpc EXCEPT ![t] = "18"]
        /\ UNCHANGED <<main_pc, main_i, tmp, reader_count, rsem, wsem>>
        /\ UNCHANGED <<asm_vars, macro_vars, load_vars>>

\* reader, line 18: reader_count += 1, the read of the global
ReaderLoadCount ==
    \E t \in Readers :
        /\ tpc[t] = "18"
        /\ tmp' = [tmp EXCEPT ![t] = reader_count]
        /\ tpc' = [tpc EXCEPT ![t] = "18w"]
        /\ UNCHANGED <<main_pc, main_i, reader_count, x, rsem, wsem>>
        /\ UNCHANGED <<asm_vars, macro_vars, load_vars>>

\* reader, line 18: reader_count += 1, the write of the global
ReaderStoreCount ==
    \E t \in Readers :
        /\ tpc[t] = "18w"
        /\ reader_count' = tmp[t] + 1
        /\ tpc' = [tpc EXCEPT ![t] = "19"]
        /\ UNCHANGED <<main_pc, main_i, tmp, x, rsem, wsem>>
        /\ UNCHANGED <<asm_vars, macro_vars, load_vars>>

\* reader, lines 19-21: if reader_count == 1: wsem.acquire()
ReaderLockWriters ==
    \E t \in Readers :
        /\ tpc[t] = "19"
        /\ reader_count = 1 => wsem > 0
        /\ wsem' = IF reader_count = 1 THEN wsem - 1 ELSE wsem
        /\ tpc' = [tpc EXCEPT ![t] = "22"]
        /\ UNCHANGED <<main_pc, main_i, tmp, reader_count, x, rsem>>
        /\ UNCHANGED <<asm_vars, macro_vars, load_vars>>

\* reader, line 22: x.release()
ReaderReleaseX ==
    \E t \in Readers :
        /\ tpc[t] = "22"
        /\ x' = x + 1
        /\ tpc' = [tpc EXCEPT ![t] = "25"]
        /\ UNCHANGED <<main_pc, main_i, tmp, reader_count, rsem, wsem>>
        /\ UNCHANGED <<asm_vars, macro_vars, load_vars>>

\* reader, lines 25-27: the reading section
ReaderRead ==
    \E t \in Readers :
        /\ tpc[t] = "25"
        /\ tpc' = [tpc EXCEPT ![t] = "30"]
        /\ UNCHANGED <<main_pc, main_i, tmp, reader_count, x, rsem, wsem>>
        /\ UNCHANGED <<asm_vars, macro_vars, load_vars>>

\* reader, line 30: x.acquire()
ReaderAcquireXExit ==
    \E t \in Readers :
        /\ tpc[t] = "30"
        /\ x > 0
        /\ x' = x - 1
        /\ tpc' = [tpc EXCEPT ![t] = "31"]
        /\ UNCHANGED <<main_pc, main_i, tmp, reader_count, rsem, wsem>>
        /\ UNCHANGED <<asm_vars, macro_vars, load_vars>>

\* reader, line 31: reader_count -= 1, the read of the global
ReaderLoadCountExit ==
    \E t \in Readers :
        /\ tpc[t] = "31"
        /\ tmp' = [tmp EXCEPT ![t] = reader_count]
        /\ tpc' = [tpc EXCEPT ![t] = "31w"]
        /\ UNCHANGED <<main_pc, main_i, reader_count, x, rsem, wsem>>
        /\ UNCHANGED <<asm_vars, macro_vars, load_vars>>

\* reader, line 31: reader_count -= 1, the write of the global
ReaderStoreCountExit ==
    \E t \in Readers :
        /\ tpc[t] = "31w"
        /\ reader_count' = tmp[t] - 1
        /\ tpc' = [tpc EXCEPT ![t] = "32"]
        /\ UNCHANGED <<main_pc, main_i, tmp, x, rsem, wsem>>
        /\ UNCHANGED <<asm_vars, macro_vars, load_vars>>

\* Variant of the reader's exit that leaves wsem taken.
ReaderUnlockWriters_keeps ==
    \E t \in Readers :
        /\ tpc[t] = "32"
        /\ tpc' = [tpc EXCEPT ![t] = "35"]
        /\ UNCHANGED <<main_pc, main_i, tmp, reader_count, x, rsem, wsem>>
        /\ UNCHANGED <<asm_vars, macro_vars, load_vars>>

\* reader, lines 32-34: if reader_count == 0: wsem.release()
ReaderUnlockWriters ==
    \E t \in Readers :
        /\ tpc[t] = "32"
        /\ wsem' = IF reader_count = 0 THEN wsem + 1 ELSE wsem
        /\ tpc' = [tpc EXCEPT ![t] = "35"]
        /\ UNCHANGED <<main_pc, main_i, tmp, reader_count, x, rsem>>
        /\ UNCHANGED <<asm_vars, macro_vars, load_vars>>

\* reader, line 35: x.release()
ReaderReleaseXExit ==
    \E t \in Readers :
        /\ tpc[t] = "35"
        /\ x' = x + 1
        /\ tpc' = [tpc EXCEPT ![t] = "36"]
        /\ UNCHANGED <<main_pc, main_i, tmp, reader_count, rsem, wsem>>
        /\ UNCHANGED <<asm_vars, macro_vars, load_vars>>

\* reader, line 36: rsem.release(), and the thread ends
ReaderReleaseRsem ==
    \E t \in Readers :
        /\ tpc[t] = "36"
        /\ rsem' = rsem + 1
        /\ tpc' = [tpc EXCEPT ![t] = "done"]
        /\ UNCHANGED <<main_pc, main_i, tmp, reader_count, x, wsem>>
        /\ UNCHANGED <<asm_vars, macro_vars, load_vars>>

\* writer, line 43: rsem.acquire()
WriterAcquireRsem ==
    \E t \in Writers :
        /\ tpc[t] = "43"
        /\ rsem > 0
        /\ rsem' = rsem - 1
        /\ tpc' = [tpc EXCEPT ![t] = "44"]
        /\ UNCHANGED <<main_pc, main_i, tmp, reader_count, x, wsem>>
        /\ UNCHANGED <<asm_vars, macro_vars, load_vars>>

\* writer, line 44: wsem.acquire()
WriterAcquireWsem ==
    \E t \in Writers :
        /\ tpc[t] = "44"
        /\ wsem > 0
        /\ wsem' = wsem - 1
        /\ tpc' = [tpc EXCEPT ![t] = "46"]
        /\ UNCHANGED <<main_pc, main_i, tmp, reader_count, x, rsem>>
        /\ UNCHANGED <<asm_vars, macro_vars, load_vars>>

\* writer, lines 46-48: the writing section
WriterWrite ==
    \E t \in Writers :
        /\ tpc[t] = "46"
        /\ tpc' = [tpc EXCEPT ![t] = "50"]
        /\ UNCHANGED <<main_pc, main_i, tmp, reader_count, x, rsem, wsem>>
        /\ UNCHANGED <<asm_vars, macro_vars, load_vars>>

\* writer, line 50: wsem.release()
WriterReleaseWsem ==
    \E t \in Writers :
        /\ tpc[t] = "50"
        /\ wsem' = wsem + 1
        /\ tpc' = [tpc EXCEPT ![t] = "51"]
        /\ UNCHANGED <<main_pc, main_i, tmp, reader_count, x, rsem>>
        /\ UNCHANGED <<asm_vars, macro_vars, load_vars>>

\* writer, line 51: rsem.release(), and the thread ends
WriterReleaseRsem ==
    \E t \in Writers :
        /\ tpc[t] = "51"
        /\ rsem' = rsem + 1
        /\ tpc' = [tpc EXCEPT ![t] = "done"]
        /\ UNCHANGED <<main_pc, main_i, tmp, reader_count, x, wsem>>
        /\ UNCHANGED <<asm_vars, macro_vars, load_vars>>

RWNext ==
    \/ MainStart
    \/ MainJoin
    \/ ReaderAcquireRsem
    \/ ReaderAcquireX
    \/ ReaderLoadCount
    \/ ReaderStoreCount
    \/ ReaderLockWriters
    \/ ReaderReleaseX
    \/ ReaderRead
    \/ ReaderAcquireXExit
    \/ ReaderLoadCountExit
    \/ ReaderStoreCountExit
    \/ ReaderUnlockWriters
    \/ ReaderReleaseXExit
    \/ ReaderReleaseRsem
    \/ WriterAcquireRsem
    \/ WriterAcquireWsem
    \/ WriterWrite
    \/ WriterReleaseWsem
    \/ WriterReleaseRsem

SpecRW == RWInit /\ [][RWNext]_vars

-----------------------------------------------------------------------------
(* readers_writers.py: mutual exclusion *)

\* the threads inside the reading section (lines 25-27) or the writing section
\* (lines 46-48)
InSection == {t \in Threads : tpc[t] = (IF t \in Readers THEN "25" ELSE "46")}

\* the threads that hold rsem: past their rsem.acquire() and before the end of
\* their rsem.release()
HoldsRsem == {t \in Threads : tpc[t] \notin {"new", "16", "43", "done"}}

\* C30: in every interleaving at most one of the six threads is inside its
\* reading or writing section (so no writer writes while a reader reads or
\* another writer writes); at most one thread holds rsem, a reader holds it from
\* entry to exit, and reader_count never exceeds 1.
C30_MutualExclusion ==
    /\ Cardinality(InSection) <= 1
    /\ Cardinality(HoldsRsem) <= 1
    /\ rsem = 1 - Cardinality(HoldsRsem)
    /\ reader_count \in {0, 1}

\* thread2 reads, with reader_count 1 and wsem taken, after thread1 has ended;
\* thread3 and the three writers wait at rsem
C30_Witness ==
    /\ tpc[1] = "done"
    /\ tpc[2] = "25"
    /\ tpc[3] = "16"
    /\ \A t \in Writers : tpc[t] = "43"
    /\ reader_count = 1
    /\ rsem = 0
    /\ wsem = 0
    /\ x = 1

-----------------------------------------------------------------------------
(* readers_writers.py: every thread, and main, goes on when it can *)

\* a step of thread t, once main has started it
ThreadStep(t) == tpc[t] # "new" /\ RWNext /\ tpc'[t] # tpc[t]

\* a step of main
MainStep == MainStart \/ MainJoin

\* the scheduler gives every thread that can go on a turn
SpecRWFair ==
    /\ SpecRW
    /\ WF_vars(MainStep)
    /\ \A t \in Threads : WF_vars(ThreadStep(t))

\* all six threads have ended
AllDone == \A t \in Threads : tpc[t] = "done"

\* main has joined the six threads
MainDone == main_pc = "done"

\* C31: under weak fairness of every thread, no reachable state before the end
\* of main is a deadlock (some thread or main can take a step), all six
\* threads end and main joins them, and from then on reader_count is 0 and the
\* semaphores x, rsem and wsem are back at 1.
C31_NoDeadlockAllFinish ==
    /\ [](~MainDone => ENABLED RWNext)
    /\ <>(AllDone /\ MainDone)
    /\ [](AllDone => (reader_count = 0 /\ x = 1 /\ rsem = 1 /\ wsem = 1))

\* main has joined all six threads, each of the readers having read once
C31_Witness ==
    /\ MainDone
    /\ main_i = Cardinality(Threads)
    /\ AllDone
    /\ reader_count = 0
    /\ x = 1 /\ rsem = 1 /\ wsem = 1

====
